---- MODULE Spec2Model ----
(***************************************************************************)
(* Chat-platform bots of gamecode-mcp2 (examples/claude-code-only):        *)
(*   - the Slack Socket Mode bot          (slack_claude_bot.py)            *)
(*   - the Teams Graph API polling bot    (teams_claude_bot_polling.py)    *)
(*   - the Teams outgoing-webhook bot     (teams_bot_simple.py)            *)
(* Each script is its own process; `program` says which one is running.    *)
(* Text is modelled as a sequence of one-character strings, so that the    *)
(* split, strip, replace and regular-expression steps of the code are      *)
(* computed as the code computes them. Fixed bot messages are TLA+         *)
(* strings; the emoji of the source are written as :name: because the      *)
(* module is ASCII.                                                        *)
(***************************************************************************)
EXTENDS Integers, Sequences, FiniteSets, TLC

VARIABLES
    program,             \* "slack" | "teams" | "webhook" | "auth" | "extract" | "format"
                         \* | "sandbox" | "loop"
    ALLOWED_USERS,       \* slack_claude_bot.py: list from ALLOWED_USERS.split(",")
    ALLOWED_CHANNELS,    \* slack_claude_bot.py: list from ALLOWED_CHANNELS.split(",")
    req,                 \* the inbound request / message handled last
    trace,               \* the effects of the last handler invocation, in order
    audit,               \* Slack: lines of claude_audit.jsonl
    sandbox,             \* Slack: request directories under MCP_SANDBOX_BASE
    handled,             \* Slack, webhook: number of requests handled so far
    chat,                \* Teams: the messages the Graph API returns for the chat
    pending,             \* Teams: messages left in the for-loop of the current poll
    processed_messages,  \* Teams: TeamsClaudeBot.processed_messages
    ranIds,              \* Teams: ids the executor has been invoked for (history)
    failedIds,           \* Teams: ids whose handling has failed on some path (history)
    flight,              \* Slack: where process_claude_request stands, with its locals
    cwd,                 \* Slack: the current working directory of the process
    threads,             \* Slack: the cleanup threads, each with the sleep it has left
    age,                 \* Slack: now - os.path.getmtime, of each sandbox directory
    access_token,        \* Teams: TeamsClaudeBot.access_token
    token_expiry,        \* Teams: TeamsClaudeBot.token_expiry, as the time left to it
    loop,                \* Teams: where TeamsClaudeBot.start stands
    sleeping,            \* Teams: what is left of the time.sleep under way
    TEAMS_WEBHOOK_SECRET \* webhook: the secret from the environment, empty if unset

vars == <<program, ALLOWED_USERS, ALLOWED_CHANNELS, req, trace, audit, sandbox,
          handled, chat, pending, processed_messages, ranIds, failedIds, flight,
          cwd, threads, age, access_token, token_expiry, loop, sleeping,
          TEAMS_WEBHOOK_SECRET>>

teamsVars == <<chat, pending, processed_messages, ranIds, failedIds>>

\* The process state that the handlers, taken as one step, leave alone
procVars ==
    <<flight, cwd, threads, age, access_token, token_expiry, loop, sleeping,
      TEAMS_WEBHOOK_SECRET>>

----------------------------------------------------------------------------
(* Bounds *)

\* MAX_PROMPT_LENGTH is read from the environment (default 1000); scaled down.
MAX_PROMPT_LENGTH == 2
\* Requests handled by the Slack bot or the webhook bot in one run.
MaxRequests == 2
\* Length of the ALLOWED_USERS / ALLOWED_CHANNELS environment strings.
MaxEnvLen == 3

----------------------------------------------------------------------------
(* Text *)

IsSpace(c) == c \in {" ", "\n", "\t"}

\* p occurs in s at position i
MatchAt(p, s, i) ==
    /\ i + Len(p) - 1 <= Len(s)
    /\ \A k \in 1..Len(p) : s[i + k - 1] = p[k]

\* Python `p in s`
Contains(p, s) == \E i \in 1..(Len(s) + 1) : MatchAt(p, s, i)

RECURSIVE LStrip(_)
LStrip(s) == IF s # <<>> /\ IsSpace(Head(s)) THEN LStrip(Tail(s)) ELSE s

RECURSIVE RStrip(_)
RStrip(s) ==
    IF s # <<>> /\ IsSpace(s[Len(s)]) THEN RStrip(SubSeq(s, 1, Len(s) - 1)) ELSE s

\* Python str.strip()
Strip(s) == RStrip(LStrip(s))

\* Python str.replace(p, "") and re.sub of a literal pattern: every
\* non-overlapping occurrence of p, left to right, is removed.
RECURSIVE RemoveAll(_, _)
RemoveAll(s, p) ==
    IF s = <<>> \/ p = <<>> THEN s
    ELSE IF MatchAt(p, s, 1)
         THEN RemoveAll(SubSeq(s, Len(p) + 1, Len(s)), p)
         ELSE <<Head(s)>> \o RemoveAll(Tail(s), p)

\* Python str.split(","): always at least one field, fields may be empty.
RECURSIVE Split(_)
Split(s) ==
    IF \A i \in 1..Len(s) : s[i] # ","
    THEN <<s>>
    ELSE LET i == CHOOSE j \in 1..Len(s) :
                      s[j] = "," /\ \A k \in 1..(j - 1) : s[k] # ","
         IN  <<SubSeq(s, 1, i - 1)>> \o Split(SubSeq(s, i + 1, Len(s)))

\* Python `x in list`
InList(x, l) == \E i \in 1..Len(l) : l[i] = x

UpperLetters ==
    <<"A", "B", "C", "D", "E", "F", "G", "H", "I", "J", "K", "L", "M",
      "N", "O", "P", "Q", "R", "S", "T", "U", "V", "W", "X", "Y", "Z">>
LowerLetters ==
    <<"a", "b", "c", "d", "e", "f", "g", "h", "i", "j", "k", "l", "m",
      "n", "o", "p", "q", "r", "s", "t", "u", "v", "w", "x", "y", "z">>

\* Python str.lower(), on ASCII letters
LowerChar(c) ==
    IF \E i \in 1..Len(UpperLetters) : UpperLetters[i] = c
    THEN LowerLetters[CHOOSE i \in 1..Len(UpperLetters) : UpperLetters[i] = c]
    ELSE c

LowerStr(s) == [i \in 1..Len(s) |-> LowerChar(s[i])]

\* All sequences over S of length at most n
RECURSIVE SeqsUpTo(_, _)
SeqsUpTo(S, n) ==
    IF n = 0 THEN {<<>>}
    ELSE LET shorter == SeqsUpTo(S, n - 1)
         IN  shorter \cup {Append(s, c) : s \in {t \in shorter : Len(t) = n - 1}, c \in S}

----------------------------------------------------------------------------
(* Effects.  A handler's result threads st = [trace, audit, sandbox]; an   *)
(* effect is [op, arg, obj, ok]: what was done, with which text, to what,   *)
(* and whether it succeeded.                                                *)

Event(op, arg, obj, ok) == [op |-> op, arg |-> arg, obj |-> obj, ok |-> ok]

Emit(st, op, arg, obj, ok) ==
    [st EXCEPT !.trace = Append(@, Event(op, arg, obj, ok))]

\* obj is the channel of a platform call and the prompt of "prompt" and "exec"
NoChannel == <<>>

\* The events of tr with operation op
Has(tr, op) == \E i \in 1..Len(tr) : tr[i].op = op

----------------------------------------------------------------------------
(* Slack bot: slack_claude_bot.py *)

BOT == <<"B">>
SlackUsers == {<<"a">>, <<"b">>, BOT}
SlackChannels == {<<"c">>, <<"d">>}
BotMention == <<"<", "@">> \o BOT \o <<">">>

\* A prompt one character over the cap
TooLong == [i \in 1..(MAX_PROMPT_LENGTH + 1) |-> "x"]

\* Message texts a Slack user can type: no prompt, blanks, a prompt within the
\* cap, a prompt over the cap, a mention and a blank, a mention with a prompt.
SlackTexts ==
    { <<>>,
      <<" ">>,
      <<"x">>,
      TooLong,
      BotMention \o <<" ">>,
      BotMention \o <<" ", "x">> }

MsgNotAuthorizedBot == "Sorry, you're not authorized to use this bot."
MsgNotAuthorizedCmd == "Sorry, you're not authorized to use this command."
MsgNeedPrompt == "Please provide a prompt for Claude."
MsgTooLong ==
    "Prompt too long. Maximum length is " \o ToString(MAX_PROMPT_LENGTH) \o " characters."
MsgProcessing == "_processing..._"
MsgSlackTimeout ==
    ":stopwatch: Claude took too long to respond. Please try a simpler request."
MsgErrorPrefix == ":x: Error: "

\* Files the CLI may leave in the working directory
Files == {"out.png", "g.dot"}
IsSourceFile(f) == f \in {"g.dot"}

\* What a run of the CLI that exits non-zero leaves: result.returncode, and
\* result.stderr / result.stdout after strip()
FailedRuns == [returncode : {1, 2}, stderr : {"", "boom"}, stdout : {"", "partial"}]
NoRun == [returncode |-> 0, stderr |-> "", stdout |-> ""]
\* The failed run used where another call fails as well
TypicalRun == [returncode |-> 1, stderr |-> "boom", stdout |-> "partial"]

\* Steps of process_claude_request at which the operating system can refuse:
\* open() in log_audit, os.makedirs, os.chdir, os.listdir
Faults == {"none", "audit", "makedirs", "chdir", "listdir"}
MsgOsError == "[Errno 13] Permission denied"

\* What a successful run prints: an answer, a note that the image was
\* written, the bare name of the image, a pointer to the diagram source, a
\* note too long to count as a mere notice
TextDone == <<"d", "o", "n", "e">>
ResultTexts ==
    { TextDone,
      <<"c", "r", "e", "a", "t", "e", "d", " ", "o", "u", "t", ".", "p", "n", "g">>,
      <<"o", "u", "t", ".", "p", "n", "g">>,
      <<"s", "e", "e", " ", "\"", "g", ".", "d", "o", "t", "\"">>,
      <<"c", "r", "e", "a", "t", "e", "d", " ", "o", "u", "t", ".", "p", "n", "g", ",", " ", "a", "s", " ", "a", "s", "k", "e", "d">> }

\* What the outside world does during one Slack request, given the answers
\* b of auth_test (an id, else None) to the two get_bot_user_id calls.  The
\* directory listing is read only after a successful run, and the text only
\* when a file was found; a step that raises ends what comes after it.  The
\* platform calls fail on runs that leave no file and print the plain answer.
SlackWorlds ==
    {e \in [ botIds   : {<<>>},
             postFail : SUBSET {"placeholder", "delete", "reply"},
             fault    : Faults,
             exec     : {"ok", "timeout", "error"},
             run      : FailedRuns \cup {NoRun},
             diag     : {""},                \* str(e) of the exception caught
             listing  : SUBSET Files,        \* os.listdir('.') after the run
             text     : ResultTexts ] :      \* result: the standard output of the run
        /\ e.exec = "error" <=> e.run # NoRun
        /\ e.fault = "audit" => e.postFail = {}
        /\ e.fault = "makedirs" => e.postFail \subseteq {"placeholder"}
        /\ e.fault \in {"chdir", "listdir"} => e.postFail \subseteq {"reply"}
        /\ e.fault \in {"audit", "makedirs", "chdir", "listdir"} => e.exec = "ok"
        /\ (e.exec = "error" /\ e.postFail # {}) => e.run = TypicalRun
        /\ (e.exec # "ok" \/ e.fault # "none") => e.listing = {}
        /\ (e.exec # "ok" \/ e.fault # "none") => e.text = TextDone
        /\ (e.listing # {} \/ e.text # TextDone) => e.postFail = {}}

SlackEnvs(b) == {[w EXCEPT !.botIds = b] : w \in SlackWorlds}

\* The world in which every call succeeds and the CLI leaves no file
QuietEnv(b) ==
    [botIds |-> b, postFail |-> {}, fault |-> "none", exec |-> "ok", run |-> NoRun,
     diag |-> "", listing |-> {}, text |-> TextDone]

\* Socket Mode envelopes: an Events API event (an app_mention, which carries
\* no channel_type, or a message), a slash command, anything else
SlackRequests ==
    [ type         : {"events_api"},
      etype        : {"app_mention"},
      channel_type : {"none"},
      subtype      : BOOLEAN,
      user         : SlackUsers,
      channel      : SlackChannels,
      text         : SlackTexts ]
    \cup
    [ type         : {"events_api"},
      etype        : {"message"},
      channel_type : {"im", "channel"},
      subtype      : BOOLEAN,
      user         : SlackUsers,
      channel      : SlackChannels,
      text         : SlackTexts ]
    \cup
    [ type         : {"slash_commands"},
      etype        : {"none"},
      channel_type : {"none"},
      subtype      : {FALSE},
      user         : SlackUsers,
      channel      : SlackChannels,
      text         : SlackTexts ]
    \cup
    [ type         : {"interactive"},
      etype        : {"none"},
      channel_type : {"none"},
      subtype      : {FALSE},
      user         : {<<"a">>},
      channel      : {<<"c">>},
      text         : {<<>>} ]

is_authorized_lists(users, channels, user, channel) ==
    IF users # <<>> /\ users[1] # <<>> /\ ~InList(user, users)
    THEN FALSE
    ELSE IF channels # <<>> /\ channels[1] # <<>> /\ ~InList(channel, channels)
         THEN FALSE
         ELSE TRUE

is_authorized(user, channel) ==
    is_authorized_lists(ALLOWED_USERS, ALLOWED_CHANNELS, user, channel)

\* get_bot_user_id: the id, or None (here <<>>) when auth_test raises
get_bot_user_id(e, n) == IF e.botIds[n] THEN BOT ELSE <<>>

clean_mention(text, bot_id) ==
    IF bot_id # <<>> THEN Strip(RemoveAll(text, BotMention)) ELSE text

send_message(st, channel, text, ok) == Emit(st, "send", text, channel, ok)

delete_message(st, channel, ts, ok) ==
    IF ~ts THEN st ELSE Emit(st, "delete", MsgProcessing, channel, ok)

\* CLAUDE_ALLOWED_TOOLS, at its default
ALLOWED_TOOLS == "mcp__gamecode__read_file,mcp__gamecode__list_files"

\* A log whose file is opened for writing, not for appending
log_audit_Overwrite(st, user, channel, prompt, now) ==
    LET entry == [timestamp |-> now, user |-> user, channel |-> channel,
                  prompt |-> prompt, allowed_tools |-> ALLOWED_TOOLS]
    IN  Emit([st EXCEPT !.audit = <<entry>>], "audit", "", channel, TRUE)

\* now: datetime.utcnow(), here the number of the request
log_audit(st, user, channel, prompt, now) ==
    LET entry == [timestamp |-> now, user |-> user, channel |-> channel,
                  prompt |-> prompt, allowed_tools |-> ALLOWED_TOOLS]
    IN  Emit([st EXCEPT !.audit = Append(@, entry)], "audit", "", channel, TRUE)

\* os.makedirs(working_dir): the request's directory under the sandbox base
make_working_dir(st, user, n) ==
    Emit([st EXCEPT !.sandbox = @ \cup {<<n, user>>}], "mkdir", "", NoChannel, TRUE)

\* " | ".join(parts)
RECURSIVE JoinBar(_)
JoinBar(parts) ==
    IF Len(parts) = 1 THEN parts[1]
    ELSE parts[1] \o " | " \o JoinBar(Tail(parts))

\* Lines 452-457: error_parts
error_parts(run) ==
    <<"Exit code: " \o ToString(run.returncode)>>
    \o (IF run.stderr # "" THEN <<"Stderr: " \o run.stderr>> ELSE <<>>)
    \o (IF run.stdout # "" THEN <<"Stdout: " \o run.stdout>> ELSE <<>>)

\* A diagnostic that leaves the captured output out
slack_diagnostic_CodeOnly(run) == "Exit code: " \o ToString(run.returncode)

\* The exception execute_claude raises for a non-zero exit, as str(e)
slack_diagnostic(run) == JoinBar(error_parts(run))

\* The run itself, with what a non-zero exit left ("exit")
run_cli(st, prompt, outcome, run) ==
    LET s1 == Emit(st, "exec", outcome, prompt, outcome = "ok")
    IN  IF outcome = "error" THEN Emit(s1, "exit", "", run, FALSE) ELSE s1

\* execute_claude: returns, raises TimeoutExpired, or raises Exception(diagnostic)
slack_execute_claude(st, prompt, e) ==
    LET s1 == run_cli(st, prompt, e.exec, e.run)
    IN  IF e.exec = "ok" THEN Emit(s1, "return", "", e.text, TRUE) ELSE s1

----------------------------------------------------------------------------
(* Slack bot, response formatter: send_formatted_content and what it calls. *)
(* A formatter message is the effect [op |-> "reply", arg |-> the rendering *)
(* chosen, obj |-> the text posted].                                        *)

StartsWith(s, p) == MatchAt(p, s, 1)

\* Python str.split(c), c one character
RECURSIVE SplitBy(_, _)
SplitBy(s, c) ==
    IF \A i \in 1..Len(s) : s[i] # c
    THEN <<s>>
    ELSE LET i == CHOOSE j \in 1..Len(s) : s[j] = c /\ \A k \in 1..(j - 1) : s[k] # c
         IN  <<SubSeq(s, 1, i - 1)>> \o SplitBy(SubSeq(s, i + 1, Len(s)), c)

\* Python str.count(c), c one character
Count(s, c) == Cardinality({i \in 1..Len(s) : s[i] = c})

\* Python sep.join(parts)
RECURSIVE Join(_, _)
Join(sep, parts) ==
    IF parts = <<>> THEN <<>>
    ELSE IF Len(parts) = 1 THEN parts[1]
    ELSE parts[1] \o sep \o Join(sep, Tail(parts))

\* any(word in s for word in words)
ContainsAny(s, words) == \E w \in words : Contains(w, s)

\* Three backquotes; a backquote is written ' here
Fence == <<"'", "'", "'">>
NL == <<"\n">>

\* Files the CLI can leave in the working directory: an image, a data file,
\* a diagram source
AllFiles == {"out.png", "out.csv", "g.dot"}
FileChars ==
    ("out.png" :> <<"o", "u", "t", ".", "p", "n", "g">>)
    @@ ("out.csv" :> <<"o", "u", "t", ".", "c", "s", "v">>)
    @@ ("g.dot" :> <<"g", ".", "d", "o", "t">>)

\* os.path.basename
Basename(path) ==
    LET slashes == {i \in 1..Len(path) : path[i] = "/"}
    IN  IF slashes = {} THEN path
        ELSE SubSeq(path, (CHOOSE i \in slashes : \A j \in slashes : j <= i) + 1, Len(path))

\* os.path.splitext(path.lower())[1]
SplitExt(path) ==
    LET name == LowerStr(Basename(path))
        dots == {i \in 2..Len(name) : name[i] = "."}
    IN  IF dots = {} THEN <<>>
        ELSE SubSeq(name, CHOOSE i \in dots : \A j \in dots : j <= i, Len(name))

ImageExts ==
    { <<".", "p", "n", "g">>,
      <<".", "j", "p", "g">>,
      <<".", "j", "p", "e", "g">>,
      <<".", "g", "i", "f">>,
      <<".", "s", "v", "g">> }
DataExts ==
    { <<".", "c", "s", "v">>,
      <<".", "j", "s", "o", "n">>,
      <<".", "y", "a", "m", "l">>,
      <<".", "y", "m", "l">> }

\* Lines 508-515
is_likely_path(content_stripped) ==
    \/ StartsWith(content_stripped, <<"/">>)
    \/ /\ Len(SplitBy(content_stripped, "\n")) = 1
       /\ Len(content_stripped) < 100
       /\ ~Contains(<<" ">>, content_stripped)
       /\ Contains(<<".">>, content_stripped)
       /\ ContainsAny(LowerStr(content_stripped), ImageExts \cup DataExts)

\* Lines 564-567
wants_json(prompt) == ContainsAny(LowerStr(prompt), {<<"j", "s", "o", "n">>, <<"a", "s", " ", "j", "s", "o", "n">>})
wants_yaml(prompt) ==
    ContainsAny(LowerStr(prompt), {<<"y", "a", "m", "l">>, <<"y", "m", "l">>,
         <<"a", "s", " ", "y", "a", "m", "l">>})
wants_csv(prompt) ==
    ContainsAny(LowerStr(prompt), 
        {<<"c", "s", "v">>, <<"c", "o", "m", "m", "a", " ", "s", "e", "p", "a", "r", "a", "t", "e", "d">>,
         <<"a", "s", " ", "c", "s", "v">>})
wants_file(prompt) ==
    ContainsAny(LowerStr(prompt), 
        {<<"f", "i", "l", "e">>, <<"d", "o", "w", "n", "l", "o", "a", "d">>,
         <<"a", "t", "t", "a", "c", "h", "m", "e", "n", "t">>})

\* json.loads and json.dumps(parsed, indent=2), on the outputs used here: the
\* texts that parse, each with its pretty-printed form
JsonPretty ==
    (<<"{", "\"", "a", "\"", ":", " ", "1", "}">>
        :> <<"{", "\n", " ", " ", "\"", "a", "\"", ":", " ", "1", "\n", "}">>)
    @@ (<<"{", "\"", "a", "\"", ":", "1", "}">>
        :> <<"{", "\n", " ", " ", "\"", "a", "\"", ":", " ", "1", "\n", "}">>)
    @@ (<<"[", "1", ",", "2", "]">>
        :> <<"[", "\n", " ", " ", "1", ",", "\n", " ", " ", "2", "\n", "]">>)
    @@ (<<"[", "1", ",", "2", "\n", ",", "3", "]">>
        :> <<"[", "\n", " ", " ", "1", ",", "\n", " ", " ", "2", ",", "\n", " ", " ", "3", "\n", "]">>)
    @@ (<<"[", "\"", "<", "s", "v", "g", ">", "<", "/", "s", "v", "g", ">", "\"", "]">>
        :> <<"[", "\n", " ", " ", "\"", "<", "s", "v", "g", ">", "<", "/", "s", "v", "g", ">", "\"", "\n", "]">>)
    @@ (<<"4", "2">>
        :> <<"4", "2">>)

json_loads_ok(content) == content \in DOMAIN JsonPretty

\* Lines 577-582
is_json(content) ==
    /\ StartsWith(Strip(content), <<"{">>) \/ StartsWith(Strip(content), <<"[">>)
    /\ json_loads_ok(content)

\* Line 585
is_yaml(content) ==
    StartsWith(Strip(content), <<"-", "-", "-">>) \/ Contains(<<":", " ">>, content)

\* Lines 589-594: lines[1:5] are the second to the fifth line
is_csv(content) ==
    /\ Contains(<<",">>, content)
    /\ Contains(NL, content)
    /\ LET lines == SplitBy(Strip(content), "\n")
       IN  /\ Len(lines) > 1
           /\ \A i \in 2..Len(lines) :
                 i <= 5 => Count(lines[i], ",") = Count(lines[1], ",")

\* Line 597
is_svg(content) ==
    /\ Contains(<<"<", "s", "v", "g">>, LowerStr(content))
    /\ Contains(<<"<", "/", "s", "v", "g", ">">>, LowerStr(content))

\* Line 601
is_markdown(content) ==
    ContainsAny(content, {<<"#">>, <<"*", "*">>, <<"'", "'", "'">>, <<"|">>, <<"-">>, <<"*">>})

post(st, kind, text, ok) == Emit(st, "reply", kind, text, ok)

\* send_message(channel, text, code_block=True)
send_code_block(st, text, ok) == post(st, "code", Fence \o NL \o text \o NL \o Fence, ok)

\* Lines 624-636
send_json_formatted(st, json_content, ok) ==
    IF json_loads_ok(json_content)
    THEN post(st, "json",
              Fence \o <<"j", "s", "o", "n">> \o NL \o JsonPretty[json_content] \o NL \o Fence,
              ok)
    ELSE send_code_block(st, json_content, ok)

\* Lines 638-642
send_yaml_formatted(st, yaml_content, ok) ==
    post(st, "yaml", Fence \o <<"y", "a", "m", "l">> \o NL \o yaml_content \o NL \o Fence, ok)

\* len(lines) <= 10 and len(line.split(',')) <= 5 at line 649; scaled down.
TableMaxLines == 3
TableMaxColumns == 2

\* "| " + " | ".join(cells) + " |\n"
TableRow(cells) == <<"|", " ">> \o Join(<<" ", "|", " ">>, cells) \o <<" ", "|">> \o NL

\* "|" + "|".join(["---"] * len(headers)) + "|\n"
TableRule(headers) ==
    <<"|">> \o Join(<<"|">>, [i \in 1..Len(headers) |-> <<"-", "-", "-">>]) \o <<"|">> \o NL

\* Lines 651-657
csv_table(lines) ==
    TableRow(SplitBy(lines[1], ",")) \o TableRule(SplitBy(lines[1], ","))
        \o Join(<<>>, [i \in 1..(Len(lines) - 1) |-> TableRow(SplitBy(lines[i + 1], ","))])

\* A renderer that draws a table of any CSV
send_csv_formatted_AlwaysTable(st, csv_content, ok) ==
    post(st, "csv_table", csv_table(SplitBy(Strip(csv_content), "\n")), ok)

\* Lines 644-663
send_csv_formatted(st, csv_content, ok) ==
    LET lines == SplitBy(Strip(csv_content), "\n")
    IN  IF /\ Len(lines) <= TableMaxLines
           /\ \A i \in 1..Len(lines) : Len(SplitBy(lines[i], ",")) <= TableMaxColumns
        THEN post(st, "csv_table", csv_table(lines), ok)
        ELSE post(st, "csv_block",
                  Fence \o <<"c", "s", "v">> \o NL \o csv_content \o NL \o Fence, ok)

\* Lines 665-715: the content goes up as a temporary file of its own, named
\* by the extension chosen here
send_as_file(st, content, prompt, svg) ==
    LET ext == IF svg THEN ".svg"
               ELSE IF Contains(<<"j", "s", "o", "n">>, LowerStr(prompt))
                       \/ StartsWith(Strip(content), <<"{">>) THEN ".json"
               ELSE IF Contains(<<"y", "a", "m", "l">>, LowerStr(prompt)) THEN ".yaml"
               ELSE IF Contains(<<"c", "s", "v">>, LowerStr(prompt)) THEN ".csv"
               ELSE ".txt"
    IN  Emit(st, "attach", ext, content, TRUE)

\* Lines 717-753: the file itself is uploaded
send_image_file(st, channel, f) == Emit(st, "upload", f, channel, TRUE)

\* Lines 604-622, with the branch for YAML tried before the one for JSON
dispatch_YamlFirst(st, content, prompt, ok) ==
    IF is_svg(content)
       \/ (wants_file(prompt) /\ (is_json(content) \/ is_yaml(content) \/ is_csv(content)))
    THEN send_as_file(st, content, prompt, is_svg(content))
    ELSE IF is_yaml(content) /\ ~wants_json(prompt) /\ ~wants_csv(prompt)
    THEN send_yaml_formatted(st, content, ok)
    ELSE IF is_json(content) /\ ~wants_yaml(prompt) /\ ~wants_csv(prompt)
    THEN send_json_formatted(st, content, ok)
    ELSE IF is_csv(content)
    THEN send_csv_formatted(st, content, ok)
    ELSE IF is_markdown(content)
    THEN post(st, "markdown", content, ok)
    ELSE send_code_block(st, content, ok)

\* Lines 604-622, with the prompt's format words left unread
dispatch_DetectionOnly(st, content, prompt, ok) ==
    IF is_svg(content)
       \/ (wants_file(prompt) /\ (is_json(content) \/ is_yaml(content) \/ is_csv(content)))
    THEN send_as_file(st, content, prompt, is_svg(content))
    ELSE IF is_json(content)
    THEN send_json_formatted(st, content, ok)
    ELSE IF is_yaml(content)
    THEN send_yaml_formatted(st, content, ok)
    ELSE IF is_csv(content)
    THEN send_csv_formatted(st, content, ok)
    ELSE IF is_markdown(content)
    THEN post(st, "markdown", content, ok)
    ELSE send_code_block(st, content, ok)

\* Lines 604-622
dispatch(st, content, prompt, ok) ==
    IF is_svg(content)
       \/ (wants_file(prompt) /\ (is_json(content) \/ is_yaml(content) \/ is_csv(content)))
    THEN send_as_file(st, content, prompt, is_svg(content))
    ELSE IF is_json(content) /\ ~wants_yaml(prompt) /\ ~wants_csv(prompt)
    THEN send_json_formatted(st, content, ok)
    ELSE IF is_yaml(content) /\ ~wants_json(prompt) /\ ~wants_csv(prompt)
    THEN send_yaml_formatted(st, content, ok)
    ELSE IF is_csv(content)
    THEN send_csv_formatted(st, content, ok)
    ELSE IF is_markdown(content)
    THEN post(st, "markdown", content, ok)
    ELSE send_code_block(st, content, ok)

\* Lines 501-622.  fs: the files of the working directory, each with its
\* text; a path is looked up there.
send_formatted_content(st, channel, content, prompt, fs, ok) ==
    LET content_stripped == Strip(content)
        found == {f \in DOMAIN fs : FileChars[f] = Basename(content_stripped)}
        ext == SplitExt(content_stripped)
    IN  IF is_likely_path(content_stripped) /\ found # {} /\ ext \in ImageExts
        THEN send_image_file(st, channel, CHOOSE f \in found : TRUE)
        ELSE IF is_likely_path(content_stripped) /\ found # {} /\ ext \in DataExts
        THEN LET f == CHOOSE x \in found : TRUE
                 file_content == fs[f]
                 s1 == post(st, "created_file", FileChars[f], ok)
                 s2 == IF ext = <<".", "c", "s", "v">>
                       THEN send_csv_formatted(s1, file_content, ok)
                       ELSE IF ext = <<".", "j", "s", "o", "n">>
                       THEN send_json_formatted(s1, file_content, ok)
                       ELSE send_yaml_formatted(s1, file_content, ok)
             IN  send_as_file(s2, file_content, prompt, FALSE)
        ELSE dispatch(st, content, prompt, ok)

----------------------------------------------------------------------------
(* Slack bot: delivery of the result *)

RECURSIVE UploadAll(_, _, _)
UploadAll(st, channel, files) ==
    IF files = {} THEN st
    ELSE LET f == CHOOSE x \in files : TRUE
         IN  UploadAll(Emit(st, "upload", f, channel, TRUE), channel, files \ {f})

IsWordChar(c) ==
    \/ \E i \in 1..Len(UpperLetters) : c = UpperLetters[i] \/ c = LowerLetters[i]
    \/ c \in {"0", "1", "2", "3", "4", "5", "6", "7", "8", "9", "_"}

\* The quotes of the pattern at line 762 (a backquote is written ')
Quotes == {"'", "\""}

\* [^'"`]+\.[a-zA-Z0-9]+ matches the whole of inner
IsQuotedName(inner) ==
    \E p \in 2..(Len(inner) - 1) :
        /\ inner[p] = "."
        /\ \A k \in (p + 1)..Len(inner) : IsWordChar(inner[k]) /\ inner[k] # "_"

\* re.findall of the pattern at line 762, from position i on
RECURSIVE QuotedFrom(_, _)
QuotedFrom(text, i) ==
    IF i > Len(text) THEN {}
    ELSE IF text[i] \notin Quotes THEN QuotedFrom(text, i + 1)
    ELSE LET closers == {j \in (i + 1)..Len(text) : text[j] \in Quotes}
         IN  IF closers = {} THEN {}
             ELSE LET j == CHOOSE x \in closers : \A y \in closers : x <= y
                      inner == SubSeq(text, i + 1, j - 1)
                  IN  IF IsQuotedName(inner)
                      THEN {inner} \cup QuotedFrom(text, j + 1)
                      ELSE QuotedFrom(text, i + 1)

SourceExts == {<<".", "d", "o", "t">>, <<".", "p", "u", "m", "l">>}
WordExts ==
    { <<".", "c", "s", "v">>,
      <<".", "j", "s", "o", "n">>,
      <<".", "y", "a", "m", "l">>,
      <<".", "y", "m", "l">>,
      <<".", "t", "x", "t">>,
      <<".", "p", "n", "g">>,
      <<".", "j", "p", "g">>,
      <<".", "j", "p", "e", "g">>,
      <<".", "s", "v", "g">>,
      <<".", "g", "i", "f">> }

\* re.findall of the pattern at line 774: a word from a to p - 1, a dot at
\* p, one of the extensions up to b, word boundaries on both sides
WordFiles(text) ==
    LET n == Len(text)
        hits == {x \in (1..n) \X (1..n) \X (1..n) :
                    /\ x[1] < x[2] /\ x[2] < x[3]
                    /\ text[x[2]] = "."
                    /\ x[1] = 1 \/ ~IsWordChar(text[x[1] - 1])
                    /\ \A k \in x[1]..(x[2] - 1) : IsWordChar(text[k])
                    /\ LowerStr(SubSeq(text, x[2], x[3])) \in WordExts
                    /\ x[3] = n \/ ~IsWordChar(text[x[3] + 1])}
    IN  {SubSeq(text, x[1], x[3]) : x \in hits}

\* Lines 755-781, as the set of the names returned
extract_filenames_from_text(text) ==
    {m \in QuotedFrom(text, 1) :
        /\ ~StartsWith(m, <<"h", "t", "t", "p">>)
        /\ ~Contains(<<"/">>, m)
        /\ SplitExt(m) \notin SourceExts}
    \cup WordFiles(text)

\* The length under which a result can be a mere notice (200 at line 355)
NoticeMaxLen == 20

CreationWords ==
    {<<"c", "r", "e", "a", "t", "e", "d">>,
     <<"s", "a", "v", "e", "d">>,
     <<"g", "e", "n", "e", "r", "a", "t", "e", "d">>,
     <<"w", "r", "o", "t", "e">>}

\* A test that does not ask for a word of creation
is_just_file_notification_AnyMention(result, created_files) ==
    /\ Len(result) < NoticeMaxLen
    /\ \E f \in created_files : Contains(LowerStr(FileChars[f]), LowerStr(result))

\* Lines 353-358
is_just_file_notification(result, created_files) ==
    /\ Len(result) < NoticeMaxLen
    /\ \E f \in created_files : Contains(LowerStr(FileChars[f]), LowerStr(result))
    /\ ContainsAny(LowerStr(result), CreationWords)

\* The texts process_claude_request can be handed as the prompt
SlackPrompts == SlackTexts \cup {clean_mention(t, BOT) : t \in SlackTexts}

\* The text-processing steps of the success branch, tabulated over the
\* results, the directory listings, the prompts and the channels
Mentions == [t \in ResultTexts |-> extract_filenames_from_text(t)]
Notification ==
    [t \in ResultTexts, l \in SUBSET Files |->
        is_just_file_notification(t, {f \in l : ~IsSourceFile(f)})]
Formatted ==
    [t \in ResultTexts, l \in SUBSET Files, p \in SlackPrompts, c \in SlackChannels,
     ok \in BOOLEAN |->
        send_formatted_content([trace |-> <<>>], c, t, p, [f \in l |-> <<>>], ok).trace]

\* The success branch: lines 315-362.  The files that exist in the working
\* directory are those os.listdir has returned.
slack_deliver(st, channel, prompt, e, processing_ts) ==
    LET created_files == {f \in e.listing : ~IsSourceFile(f)}
        s0 == Emit(st, "listdir", "", e.listing, TRUE)
        s1 == delete_message(s0, channel, processing_ts, "delete" \notin e.postFail)
        s2 == UploadAll(s1, channel, created_files)
        mentioned_files == Mentions[e.text]
        s3 == UploadAll(s2, channel,
                        {f \in e.listing \ created_files : FileChars[f] \in mentioned_files})
    IN  IF created_files = {} \/ ~Notification[e.text, e.listing]
        THEN [s3 EXCEPT !.trace =
                 Append(@, Event("format", "", e.text, TRUE))
                 \o Formatted[e.text, e.listing, prompt, channel, "reply" \notin e.postFail]]
        ELSE s3

\* A timeout handled as any other exception is
slack_on_timeout_AsError(st, channel, e, processing_ts) ==
    send_message(delete_message(st, channel, processing_ts, "delete" \notin e.postFail),
                 channel, MsgErrorPrefix \o e.diag, "reply" \notin e.postFail)

\* except subprocess.TimeoutExpired: lines 364-367
slack_on_timeout(st, channel, e, processing_ts) ==
    send_message(delete_message(st, channel, processing_ts, "delete" \notin e.postFail),
                 channel, MsgSlackTimeout, "reply" \notin e.postFail)

\* except Exception as e: lines 368-371
slack_on_error(st, channel, e, processing_ts) ==
    send_message(delete_message(st, channel, processing_ts, "delete" \notin e.postFail),
                 channel, MsgErrorPrefix \o e.diag, "reply" \notin e.postFail)

\* Lines 225-236: the prompt is refused (with the message sent) or accepted
validate_prompt(prompt) ==
    IF Strip(prompt) = <<>> THEN MsgNeedPrompt
    ELSE IF Len(prompt) > MAX_PROMPT_LENGTH THEN MsgTooLong
    ELSE "accepted"

\* The operating system refuses at this step: an OSError is raised
raise(st, step) == Emit(st, "raise", step, NoChannel, FALSE)

\* An exception that no handler of process_claude_request catches leaves it
escape(st, step) == Emit(raise(st, step), "escape", step, NoChannel, FALSE)

\* Lines 307-386: the try statement with its handlers and its finally clause
slack_try(st, channel, prompt, e, processing_ts) ==
    LET s5 == IF e.fault = "chdir" THEN st ELSE slack_execute_claude(st, prompt, e)
        s6 == IF e.fault \in {"chdir", "listdir"}
              THEN slack_on_error(raise(s5, e.fault), channel,
                                  [e EXCEPT !.diag = MsgOsError], processing_ts)
              ELSE IF e.exec = "ok"
              THEN slack_deliver(s5, channel, prompt, e, processing_ts)
              ELSE IF e.exec = "timeout"
              THEN slack_on_timeout(s5, channel, e, processing_ts)
              ELSE slack_on_error(s5, channel,
                                  [e EXCEPT !.diag = slack_diagnostic(e.run)],
                                  processing_ts)
    IN  Emit(s6, "cleanup_scheduled", "", NoChannel, TRUE)

process_claude_request(st, channel, user, prompt, e, n) ==
    LET s0 == Emit(st, "prompt", "", prompt, TRUE)
        verdict == validate_prompt(prompt)
    IN
    IF verdict # "accepted"
    THEN send_message(s0, channel, verdict, TRUE)
    ELSE IF e.fault = "audit"
    THEN escape(s0, "log_audit")
    ELSE
      LET s1 == log_audit(s0, user, channel, prompt, n)
          s2 == Emit(s1, "context", "", channel, TRUE)
          processing_ts == "placeholder" \notin e.postFail
          s3 == send_message(s2, channel, MsgProcessing, processing_ts)
      IN  IF e.fault = "makedirs"
          THEN escape(s3, "makedirs")
          ELSE slack_try(make_working_dir(s3, user, n), channel, prompt, e,
                         processing_ts)

auth_filter(st, user, channel) ==
    Emit(st, "auth", IF is_authorized(user, channel) THEN "allow" ELSE "deny",
         channel, TRUE)

handle_mention(st, r, e, n) ==
    LET text == clean_mention(r.text, get_bot_user_id(e, 2))
        s1 == auth_filter(st, r.user, r.channel)
    IN  IF ~is_authorized(r.user, r.channel)
        THEN send_message(s1, r.channel, MsgNotAuthorizedBot, TRUE)
        ELSE process_claude_request(s1, r.channel, r.user, text, e, n)

\* A direct-message handler that does not consult the allow-lists
handle_direct_message_Unchecked(st, r, e, n) ==
    IF r.user = get_bot_user_id(e, 2)
    THEN st
    ELSE process_claude_request(st, r.channel, r.user, r.text, e, n)

handle_direct_message(st, r, e, n) ==
    IF r.user = get_bot_user_id(e, 2)
    THEN st
    ELSE LET s1 == auth_filter(st, r.user, r.channel)
         IN  IF ~is_authorized(r.user, r.channel)
             THEN send_message(s1, r.channel, MsgNotAuthorizedBot, TRUE)
             ELSE process_claude_request(s1, r.channel, r.user, r.text, e, n)

\* A slash-command handler that rejects and then carries on regardless
handle_slash_command_FallsThrough(st, r, e, n) ==
    LET s1 == auth_filter(st, r.user, r.channel)
        s2 == IF ~is_authorized(r.user, r.channel)
              THEN send_message(s1, r.channel, MsgNotAuthorizedCmd, TRUE)
              ELSE s1
    IN  process_claude_request(s2, r.channel, r.user, r.text, e, n)

handle_slash_command(st, r, e, n) ==
    LET s1 == auth_filter(st, r.user, r.channel)
    IN  IF ~is_authorized(r.user, r.channel)
        THEN send_message(s1, r.channel, MsgNotAuthorizedCmd, TRUE)
        ELSE process_claude_request(s1, r.channel, r.user, r.text, e, n)

handle_event(st, r, e, n) ==
    IF r.user = get_bot_user_id(e, 1) THEN st
    ELSE IF r.subtype THEN st
    ELSE IF r.etype = "app_mention" THEN handle_mention(st, r, e, n)
    ELSE IF r.etype = "message" /\ r.channel_type = "im"
         THEN handle_direct_message(st, r, e, n)
    ELSE st

\* A listener that handles the request first and acknowledges it afterwards
process_socket_mode_request_AckLast(st, r, e, n) ==
    IF r.type = "events_api"
    THEN Emit(handle_event(st, r, e, n), "ack", "", NoChannel, TRUE)
    ELSE IF r.type = "slash_commands"
    THEN Emit(handle_slash_command(st, r, e, n), "ack", "", NoChannel, TRUE)
    ELSE st

\* Lines 140-158
process_socket_mode_request(st, r, e, n) ==
    IF r.type = "events_api"
    THEN handle_event(Emit(st, "ack", "", NoChannel, TRUE), r, e, n)
    ELSE IF r.type = "slash_commands"
    THEN handle_slash_command(Emit(st, "ack", "", NoChannel, TRUE), r, e, n)
    ELSE st

NoRequest == [none |-> TRUE]

\* process_claude_request is not running
NoFlight == [none |-> TRUE]

\* The directory the bot was started in
HOME == "."

\* Python None
None == "None"

\* token_expiry is None: no expiry is recorded.  A number, as the expiries
\* are, and one that no expiry takes.
NoExpiry == 0 - 1

\* The answers of auth_test to the two get_bot_user_id calls of one request
\* (TRUE: the id, FALSE: it raises).  An answer is varied where the handler
\* reads it against something: the first against the sender, the second
\* against the sender or a mention in the text.
AuthTestAnswers(r) ==
    {b \in [1..2 -> BOOLEAN] :
        /\ (r.type # "events_api" \/ r.user # BOT) => b[1]
        /\ (r.type # "events_api"
              \/ (r.user # BOT /\ RemoveAll(r.text, BotMention) = r.text)) => b[2]}

\* One Socket Mode request, handled to the end.  The executor, the file
\* listing and the platform calls after validation are consulted only by a
\* request that gets that far; for any other request they are left quiet.
SlackRequest ==
    /\ program = "slack"
    /\ req = NoRequest
    /\ handled < MaxRequests
    /\ \E r \in SlackRequests :
       \E b \in AuthTestAnswers(r) :
          LET st    == [trace |-> <<>>, audit |-> audit, sandbox |-> sandbox]
              quiet == process_socket_mode_request(st, r, QuietEnv(b), handled + 1)
          IN  \E e \in IF Has(quiet.trace, "exec")
                       THEN SlackEnvs(b)
                       ELSE {QuietEnv(b)} :
                 \E out \in {process_socket_mode_request(st, r, e, handled + 1)} :
                     /\ req' = r
                     /\ trace' = out.trace
                     /\ audit' = out.audit
                     /\ sandbox' = out.sandbox
    /\ handled' = handled + 1
    /\ UNCHANGED <<program, ALLOWED_USERS, ALLOWED_CHANNELS>>
    /\ UNCHANGED teamsVars
    /\ UNCHANGED procVars

\* The listener goes back to waiting for the next request; the polling loop
\* goes on to its next message, or to its sleep after the last one.
ListenerReturn ==
    /\ program \in {"slack", "webhook", "teams"}
    /\ req # NoRequest
    /\ req' = NoRequest
    /\ trace' = <<>>
    /\ UNCHANGED <<program, ALLOWED_USERS, ALLOWED_CHANNELS, audit, sandbox, handled>>
    /\ UNCHANGED teamsVars
    /\ UNCHANGED procVars

----------------------------------------------------------------------------
(* Teams polling bot: teams_claude_bot_polling.py *)

\* len(processed_messages) > 1000 keeps 500; scaled down.
ProcessedCap == 2
ProcessedKeep == 1
\* Messages ever posted to the chat: enough to take the set past its cap.
NumIds == ProcessedCap + 1

TEAMS_USER_ID == <<"T">>

AtClaude == <<"@", "c", "l", "a", "u", "d", "e">>
AtTagOpen == <<"<", "a", "t", ">">>
AtTagClose == <<"<", "/", "a", "t", ">">>

\* re.sub('<[^>]+>', '', content)
RECURSIVE RemoveTags(_)
RemoveTags(s) ==
    IF s = <<>> THEN s
    ELSE LET closers == {k \in 2..Len(s) : s[k] = ">"}
             k == IF closers = {} THEN 0
                  ELSE CHOOSE x \in closers : \A y \in closers : x <= y
         IN  IF Head(s) = "<" /\ k >= 3
             THEN RemoveTags(SubSeq(s, k + 1, Len(s)))
             ELSE <<Head(s)>> \o RemoveTags(Tail(s))

\* re.sub(r'@claude\s*', '', content, flags=re.IGNORECASE)
RECURSIVE RemoveClaudeMentions(_)
RemoveClaudeMentions(s) ==
    IF s = <<>> THEN s
    ELSE IF MatchAt(AtClaude, LowerStr(s), 1)
         THEN RemoveClaudeMentions(LStrip(SubSeq(s, Len(AtClaude) + 1, Len(s))))
         ELSE <<Head(s)>> \o RemoveClaudeMentions(Tail(s))

clean_message_content(content) == Strip(RemoveClaudeMentions(RemoveTags(content)))

is_bot_mentioned(message) ==
    \/ InList(TEAMS_USER_ID, message.mentions)
    \/ Contains(AtClaude, LowerStr(message.body))
    \/ Contains(AtTagOpen \o TEAMS_USER_ID \o AtTagClose, message.body)

\* What a user can post: a mention with a prompt, a mention with nothing else,
\* a mention entity with markup around the prompt, a message for someone else.
TeamsPosts ==
    { [mentions |-> <<>>, body |-> AtClaude \o <<" ", "x", "x", "x">>],
      [mentions |-> <<>>, body |-> <<"@", "C", "l", "a", "u", "d", "e", " ">>],
      [mentions |-> <<TEAMS_USER_ID>>,
       body |-> AtTagOpen \o <<"C", "l", "a", "u", "d", "e">> \o AtTagClose \o <<" ", "x">>],
      [mentions |-> <<>>, body |-> <<"x">>] }

\* What the bot computes from a message depends on its text alone: the answers
\* of is_bot_mentioned and clean_message_content for each text a user can post.
Mentioned == [m \in TeamsPosts |-> is_bot_mentioned(m)]
PromptOf == [m \in TeamsPosts |-> clean_message_content(m.body)]
Posted(message) == [mentions |-> message.mentions, body |-> message.body]

MsgTeamsTimeout == ":stopwatch: Claude took too long to respond."
\* Lines 257-258 and 232
MsgTeamsExecError(run) ==
    ":x: Error: Claude returned error: "
        \o (IF run.stderr # "" THEN run.stderr ELSE "Unknown error")
MsgTeamsSendError == ":x: Error: connection error"
MsgResult == "<stdout>"

\* requests.post answers 201, answers another status, or raises
SendOutcomes == {"sent", "rejected", "raise"}

\* What the CLI can print: an answer, an answer that names the bot
TeamsOutputs == {<<"x">>, AtClaude \o <<" ", "x", "x", "x">>}

\* What the outside world does while one mention is handled.  The second
\* send happens only when the first one raised after a successful run.  echo
\* is the output as the chat shows it once the reply is posted; it is empty
\* where no reply is posted or the later listings do not reach it.
TeamsEnvs ==
    {e \in [exec : {"ok", "timeout", "error"}, run : FailedRuns \cup {NoRun},
            send1 : SendOutcomes, send2 : SendOutcomes,
            echo : TeamsOutputs \cup {<<>>}] :
        /\ (e.exec # "ok" \/ e.send1 # "sent") => e.echo = <<>>
        /\ e.exec = "error" <=> e.run # NoRun
        /\ e.run.returncode # 2               \* which non-zero status: not read
        /\ (e.exec = "error" /\ e.send1 # "sent") => e.run = TypicalRun
        /\ (e.exec # "ok" \/ e.send1 # "raise") => e.send2 = "sent"}

\* send_message: st = [trace, raised]
teams_send_message(st, text, outcome) ==
    [trace  |-> Append(st.trace, Event("send", text, NoChannel, outcome = "sent")),
     raised |-> outcome = "raise"]

teams_execute_claude(st, prompt, e) == run_cli(st, prompt, e.exec, e.run)

\* A timeout caught by the general handler
teams_on_timeout_AsError(st, e) ==
    teams_send_message(st, MsgTeamsExecError(e.run), e.send1)

\* except subprocess.TimeoutExpired: lines 228-229
teams_on_timeout(st, e) == teams_send_message(st, MsgTeamsTimeout, e.send1)

\* except Exception as e: lines 230-232, for a failed run
teams_on_error(st, e) == teams_send_message(st, MsgTeamsExecError(e.run), e.send1)

teams_handle_mention(message, e) ==
    LET prompt == PromptOf[Posted(message)]
        st0 == [trace |-> <<Event("prompt", "", prompt, TRUE)>>, raised |-> FALSE]
    IN  IF prompt = <<>> THEN st0
        ELSE LET s1 == teams_execute_claude(st0, prompt, e)
             IN  IF e.exec = "ok"
                 THEN LET s2 == teams_send_message(s1, MsgResult, e.send1)
                      IN  IF s2.raised
                          THEN teams_send_message(s2, MsgTeamsSendError, e.send2)
                          ELSE s2
                 ELSE IF e.exec = "timeout"
                 THEN teams_on_timeout(s1, e)
                 ELSE teams_on_error(s1, e)

\* A set that is never trimmed
TrimNever(s) == {s}

\* Lines 187-188: the sets that set(list(s)[-500:]) can be

TrimProcessed(s) ==
    IF Cardinality(s) > ProcessedCap
    THEN {k \in SUBSET s : Cardinality(k) = ProcessedKeep}
    ELSE {s}

Reverse(s) == [i \in 1..Len(s) |-> s[Len(s) + 1 - i]]

\* A user posts a message into the chat.
TeamsPost ==
    /\ program = "teams"
    /\ Len(chat) < NumIds
    /\ req = NoRequest
    /\ pending = <<>>        \* a poll works on the list it fetched: a post during
                            \* the loop is seen by the next poll, as one after it
    /\ \E m \in TeamsPosts :
          chat' = Append(chat, [id |-> Len(chat) + 1, mentions |-> m.mentions,
                                body |-> m.body, from |-> "user"])
    /\ UNCHANGED <<program, ALLOWED_USERS, ALLOWED_CHANNELS, req, trace, audit,
                   sandbox, handled, pending, processed_messages, ranIds,
                   failedIds>>
    /\ UNCHANGED procVars

\* poll_messages up to the message loop: the two GETs answer 200, or one of
\* them answers another status or raises and the cycle ends.
TeamsPoll ==
    /\ program = "teams"
    /\ req = NoRequest
    /\ pending = <<>>
    /\ \E got \in {"ok", "status", "raise"} :
          pending' = IF got = "ok" THEN Reverse(chat) ELSE <<>>
    /\ req' = NoRequest
    /\ trace' = <<>>
    /\ UNCHANGED <<program, ALLOWED_USERS, ALLOWED_CHANNELS, audit, sandbox, handled,
                   chat, processed_messages, ranIds, failedIds>>
    /\ UNCHANGED procVars

\* One iteration of `for message in messages` (lines 174-188).
TeamsProcessMessage ==
    /\ program = "teams"
    /\ req = NoRequest
    /\ pending # <<>>
    /\ LET message == Head(pending)
           id == message.id
       IN  IF id \in processed_messages \/ ~Mentioned[Posted(message)]
           THEN /\ pending' = Tail(pending)
                /\ req' = NoRequest
                /\ trace' = <<>>
                /\ UNCHANGED <<chat, processed_messages, ranIds, failedIds>>
           ELSE \E e \in TeamsEnvs :
                \E out \in {teams_handle_mention(message, e)} :
                  LET ran == Has(out.trace, "exec")
                      bad == \E i \in 1..Len(out.trace) : ~out.trace[i].ok
                      replied == \E i \in 1..Len(out.trace) :
                                    /\ out.trace[i].op = "send"
                                    /\ out.trace[i].arg = MsgResult
                                    /\ out.trace[i].ok
                  IN  /\ req' = message
                      /\ chat' = IF replied /\ e.echo # <<>> /\ Len(chat) < NumIds
                                 THEN Append(chat, [id |-> Len(chat) + 1, mentions |-> <<>>,
                                                    body |-> e.echo, from |-> "bot"])
                                 ELSE chat
                      /\ ranIds' = IF ran THEN ranIds \cup {id} ELSE ranIds
                      /\ failedIds' = IF bad THEN failedIds \cup {id} ELSE failedIds
                      /\ IF out.raised
                         THEN \* escapes to poll_messages' except: the cycle ends
                              /\ pending' = <<>>
                              /\ trace' = Append(out.trace,
                                    Event("escape", "send_message", NoChannel, FALSE))
                              /\ UNCHANGED processed_messages
                         ELSE /\ pending' = Tail(pending)
                              /\ \E kept \in TrimProcessed(processed_messages \cup {id}) :
                                    /\ processed_messages' = kept
                                    /\ trace' = Append(out.trace,
                                         Event("record",
                                               IF kept = processed_messages \cup {id}
                                               THEN "added" ELSE "trimmed",
                                               NoChannel, TRUE))
    /\ UNCHANGED <<program, ALLOWED_USERS, ALLOWED_CHANNELS, audit, sandbox, handled>>
    /\ UNCHANGED procVars

----------------------------------------------------------------------------
(* Teams webhook bot: teams_bot_simple.py *)

AtClaudeTag == AtTagOpen \o <<"C", "l", "a", "u", "d", "e">> \o AtTagClose

WebhookTexts ==
    { AtClaudeTag \o <<" ", "x">>,
      AtClaudeTag,
      AtClaudeTag \o <<" ">>,
      TooLong,
      <<>> }

MsgWebhookTimeout == ":stopwatch: Claude took too long to respond."
MsgWebhookError == "Claude error: boom"

\* execute_claude of the webhook bot never raises: it returns the text to send
webhook_result(out) ==
    IF out = "ok" THEN MsgResult
    ELSE IF out = "timeout" THEN MsgWebhookTimeout
    ELSE MsgWebhookError

webhook_execute_claude(st, prompt, out) ==
    Emit(Emit(st, "exec", out, prompt, out = "ok"),
         "send", webhook_result(out), NoChannel, TRUE)

\* text.replace("<at>Claude</at>", "").strip()
webhook_prompt(text) == Strip(RemoveAll(text, AtClaudeTag))

\* TEAMS_WEBHOOK_SECRET as deployed: unset, or a secret
Secrets == {<<>>, <<"s">>}

\* base64 of the HMAC-SHA256 of payload under key: a text that tells the key
\* and the payload and that no other key or payload yields
Base64Hmac(key, payload) == <<"=">> \o key \o <<"=">> \o payload

HmacPrefix == <<"H", "M", "A", "C", " ">>

\* A character outside ASCII, as a header decoded as latin-1 can hold
NonAscii == "U+00E9"

\* The Authorization headers a request with this body can carry: the right
\* one, one signed with another key, one signed for another body, the digest
\* without its prefix, the prefix in lower case, none, a digest that is not
\* ASCII
AuthHeaders(secret, payload) ==
    { HmacPrefix \o Base64Hmac(secret, payload),
      HmacPrefix \o Base64Hmac(<<"k">>, payload),
      HmacPrefix \o Base64Hmac(secret, payload \o <<"y">>),
      Base64Hmac(secret, payload),
      LowerStr(HmacPrefix) \o Base64Hmac(secret, payload),
      <<>>,
      HmacPrefix \o <<NonAscii>> }

\* Lines 79-91.  hmac.compare_digest raises TypeError when a str argument
\* holds a character outside ASCII.
validate_hmac(auth_header, payload, secret) ==
    IF ~StartsWith(auth_header, HmacPrefix) THEN "False"
    ELSE LET provided_hash == SubSeq(auth_header, Len(HmacPrefix) + 1, Len(auth_header))
             expected_hash == Base64Hmac(secret, payload)
         IN  IF \E i \in 1..Len(provided_hash) : provided_hash[i] = NonAscii
             THEN "TypeError"
             ELSE IF provided_hash = expected_hash THEN "True" ELSE "False"

\* Lines 41-77.  An exception that leaves the view is answered 500 by Flask.
webhook(st, text, out, auth_header, secret) ==
    LET valid == IF secret # <<>> THEN validate_hmac(auth_header, text, secret) ELSE "True"
    IN  IF valid = "False" THEN Emit(st, "forbidden", "403", NoChannel, TRUE)
        ELSE IF valid = "TypeError"
        THEN Emit(Emit(st, "raise", "validate_hmac", NoChannel, FALSE),
                  "escape", "500", NoChannel, FALSE)
        ELSE LET prompt == webhook_prompt(text)
             IN  webhook_execute_claude(Emit(st, "prompt", "", prompt, TRUE), prompt, out)

\* One POST /webhook, answered.
WebhookRequest ==
    /\ program = "webhook"
    /\ req = NoRequest
    /\ handled < MaxRequests
    /\ \E text \in WebhookTexts, out \in {"ok", "timeout", "error"} :
       \E auth_header \in AuthHeaders(<<"s">>, text) :
          /\ req' = [text |-> text, Authorization |-> auth_header]
          /\ trace' = webhook([trace |-> <<>>], text, out, auth_header,
                              TEAMS_WEBHOOK_SECRET).trace
    /\ handled' = handled + 1
    /\ UNCHANGED <<program, ALLOWED_USERS, ALLOWED_CHANNELS, audit, sandbox>>
    /\ UNCHANGED teamsVars
    /\ UNCHANGED procVars

----------------------------------------------------------------------------
(* Specifications *)

\* ALLOWED_USERS / ALLOWED_CHANNELS as deployed: unset, or naming one id
SlackUserEnvs == {<<>>, <<"a">>}
SlackChannelEnvs == {<<>>, <<"c">>}

InitCommon ==
    /\ req = NoRequest
    /\ trace = <<>>
    /\ audit = <<>>
    /\ sandbox = {}
    /\ handled = 0
    /\ chat = <<>>
    /\ pending = <<>>
    /\ processed_messages = {}
    /\ ranIds = {}
    /\ failedIds = {}
    /\ flight = NoFlight
    /\ cwd = HOME
    /\ threads = {}
    /\ age = <<>>
    /\ access_token = None
    /\ token_expiry = NoExpiry
    /\ loop = "ensure_token"
    /\ sleeping = 0
    /\ TEAMS_WEBHOOK_SECRET \in IF program = "webhook" THEN Secrets ELSE {<<>>}

Init ==
    /\ program \in {"slack", "teams", "webhook"}
    /\ IF program = "slack"
       THEN /\ ALLOWED_USERS \in {Split(s) : s \in SlackUserEnvs}
            /\ ALLOWED_CHANNELS \in {Split(s) : s \in SlackChannelEnvs}
       ELSE /\ ALLOWED_USERS = Split(<<>>)
            /\ ALLOWED_CHANNELS = Split(<<>>)
    /\ InitCommon

Next ==
    \/ SlackRequest
    \/ ListenerReturn
    \/ TeamsPost
    \/ TeamsPoll
    \/ TeamsProcessMessage
    \/ WebhookRequest

Spec == Init /\ [][Next]_vars

\* is_authorized alone, over every setting of the two environment strings
InitAuth ==
    /\ program = "auth"
    /\ ALLOWED_USERS \in {Split(s) : s \in SeqsUpTo({"a", "b", ","}, MaxEnvLen)}
    /\ ALLOWED_CHANNELS \in {Split(s) : s \in SeqsUpTo({"c", "d", ","}, MaxEnvLen)}
    /\ InitCommon

AuthCall ==
    /\ program = "auth"
    /\ \E user \in SlackUsers, channel \in SlackChannels :
          /\ req' = [user |-> user, channel |-> channel]
          /\ trace' = auth_filter([trace |-> <<>>], user, channel).trace
    /\ UNCHANGED <<program, ALLOWED_USERS, ALLOWED_CHANNELS, audit, sandbox, handled>>
    /\ UNCHANGED teamsVars
    /\ UNCHANGED procVars

NextAuth == AuthCall

SpecAuth == InitAuth /\ [][NextAuth]_vars

\* The prompt extractors alone.  A body is a few pieces put together: markup
\* characters, text, a blank, an at-sign, the bot's name, a mention of it in
\* either case.
MaxPieces == 3
Pieces ==
    { <<"<">>, <<">">>, <<"x">>, <<" ">>, <<"@">>,
      <<"c", "l", "a", "u", "d", "e">>,
      <<"@", "c", "l", "a", "u", "d", "e">>,
      <<"@", "C", "L", "A", "U", "D", "E">> }

RECURSIVE Flatten(_)
Flatten(ss) == IF ss = <<>> THEN <<>> ELSE Head(ss) \o Flatten(Tail(ss))

PieceBodies == {Flatten(ss) : ss \in SeqsUpTo(Pieces, MaxPieces)}

ListTheFiles ==
    <<" ", "l", "i", "s", "t", " ", "t", "h", "e", " ", "f", "i", "l", "e", "s">>

\* The display name of the bot in every letter-case
MentionNames ==
    {<<c, l, a, u, d, e>> : c \in {"C", "c"}, l \in {"L", "l"}, a \in {"A", "a"},
                            u \in {"U", "u"}, d \in {"D", "d"}, e \in {"E", "e"}}

\* <at>NAME</at> list the files
ScenarioBodies == {AtTagOpen \o n \o AtTagClose \o ListTheFiles : n \in MentionNames}

extract_prompt(bot, body) ==
    IF bot = "teams" THEN clean_message_content(body) ELSE webhook_prompt(body)

InitExtract ==
    /\ program = "extract"
    /\ ALLOWED_USERS = Split(<<>>)
    /\ ALLOWED_CHANNELS = Split(<<>>)
    /\ InitCommon

\* A body arrives at one of the two Teams bots
ExtractBody ==
    /\ program = "extract"
    /\ req = NoRequest
    /\ \E bot \in {"teams", "webhook"}, body \in PieceBodies \cup ScenarioBodies :
          req' = [bot |-> bot, body |-> body]
    /\ UNCHANGED <<program, ALLOWED_USERS, ALLOWED_CHANNELS, trace, audit, sandbox, handled>>
    /\ UNCHANGED teamsVars
    /\ UNCHANGED procVars

\* The extractor runs on the body, and then once more on its own result
ExtractCall ==
    /\ program = "extract"
    /\ req # NoRequest
    /\ Len(trace) < 2
    /\ LET input == IF trace = <<>> THEN req.body ELSE trace[Len(trace)].obj
       IN  trace' = Append(trace, Event("prompt", "", extract_prompt(req.bot, input), TRUE))
    /\ UNCHANGED <<program, ALLOWED_USERS, ALLOWED_CHANNELS, req, audit, sandbox, handled>>
    /\ UNCHANGED teamsVars
    /\ UNCHANGED procVars

NextExtract == ExtractBody \/ ExtractCall

SpecExtract == InitExtract /\ [][NextExtract]_vars

\* The response formatter alone.  What the CLI can print:
Outputs ==
    { <<"{", "\"", "a", "\"", ":", " ", "1", "}">>,
      <<"{", "\"", "a", "\"", ":", "1", "}">>,
      <<"[", "1", ",", "2", "]">>,
      <<"[", "1", ",", "2", "\n", ",", "3", "]">>,
      <<"{", "b", "a", "d">>,
      <<"a", ":", " ", "1">>,
      <<"-", "-", "-", "\n", "a", ":", " ", "1">>,
      <<"a", ",", "b", "\n", "1", ",", "2">>,
      <<"a", ",", "b", "\n", "1", ",", "x", ":", " ", "y">>,
      <<"h", "e", "l", "l", "o">>,
      <<"#", " ", "H", "i">>,
      <<"<", "s", "v", "g", ">", "<", "/", "s", "v", "g", ">">>,
      <<"[", "\"", "<", "s", "v", "g", ">", "<", "/", "s", "v", "g", ">", "\"", "]">>,
      <<"4", "2">>,
      <<"o", "u", "t", ".", "p", "n", "g">>,
      <<"o", "u", "t", ".", "c", "s", "v">> }

\* What the user can have asked
Prompts ==
    { <<"s", "h", "o", "w", " ", "i", "t">>,
      <<"a", "s", " ", "j", "s", "o", "n">>,
      <<"a", "s", " ", "Y", "A", "M", "L">>,
      <<"a", "s", " ", "y", "m", "l">>,
      <<"a", "s", " ", "c", "s", "v">>,
      <<"c", "o", "m", "m", "a", " ", "s", "e", "p", "a", "r", "a", "t", "e", "d">>,
      <<"y", "a", "m", "l", " ", "t", "o", " ", "j", "s", "o", "n">>,
      <<"t", "o", " ", "a", " ", "f", "i", "l", "e">>,
      <<"j", "s", "o", "n", " ", "d", "o", "w", "n", "l", "o", "a", "d">> }

\* A CSV of up to TableMaxLines + 1 lines of up to TableMaxColumns + 1 cells:
\* the header cells are "h", the others "x"
CsvLine(cell, n) == Join(<<",">>, [i \in 1..n |-> <<cell>>])
CsvText(widths) ==
    Join(NL, [i \in 1..Len(widths) |-> CsvLine(IF i = 1 THEN "h" ELSE "x", widths[i])])
CsvTexts ==
    {CsvText(w) : w \in SeqsUpTo(1..(TableMaxColumns + 1), TableMaxLines + 1) \ {<<>>}}

NoFiles == [f \in {} |-> <<>>]

\* The calls of send_formatted_content: an output with a prompt, a CSV, the
\* name of a data file holding a CSV, the name of an image
FormatInputs ==
    [content : Outputs, prompt : Prompts, fs : {NoFiles}]
    \cup [content : CsvTexts, prompt : {<<"s", "h", "o", "w", " ", "i", "t">>},
          fs : {NoFiles}]
    \cup [content : {FileChars["out.csv"]},
          prompt : {<<"s", "h", "o", "w", " ", "i", "t">>},
          fs : {[f \in {"out.csv"} |-> c] : c \in CsvTexts}]
    \cup [content : {FileChars["out.png"]},
          prompt : {<<"s", "h", "o", "w", " ", "i", "t">>},
          fs : {[f \in {"out.png"} |-> <<>>]}]

InitFormat ==
    /\ program = "format"
    /\ ALLOWED_USERS = Split(<<>>)
    /\ ALLOWED_CHANNELS = Split(<<>>)
    /\ InitCommon

\* The executor has returned
FormatResult ==
    /\ program = "format"
    /\ req = NoRequest
    /\ \E r \in FormatInputs : req' = r
    /\ UNCHANGED <<program, ALLOWED_USERS, ALLOWED_CHANNELS, trace, audit, sandbox, handled>>
    /\ UNCHANGED teamsVars
    /\ UNCHANGED procVars

FormatCall ==
    /\ program = "format"
    /\ req # NoRequest
    /\ trace = <<>>
    /\ trace' = send_formatted_content([trace |-> <<>>], <<"c">>, req.content, req.prompt,
                                       req.fs, TRUE).trace
    /\ UNCHANGED <<program, ALLOWED_USERS, ALLOWED_CHANNELS, req, audit, sandbox, handled>>
    /\ UNCHANGED teamsVars
    /\ UNCHANGED procVars

NextFormat == FormatResult \/ FormatCall

SpecFormat == InitFormat /\ [][NextFormat]_vars

\* The sandbox directories alone: process_claude_request from the sandbox
\* step on (lines 249-386), the cleanup threads it starts, and time.  The
\* callback handles one request at a time.  A request directory is named by
\* the millisecond it was made in, here by a name not in use.
DirNames == {"1", "2"}

\* The sweep removes what is older than this (3600 s at line 273); scaled
\* down to ticks of the clock.
MaxAge == 2

\* time.sleep of the cleanup thread (300 s at line 379); scaled down.
GracePeriod == 1

\* The directory of the MCP configuration in the sandbox base
MCP == ".mcp"

AllDirs == DirNames \cup {MCP}

\* A sweep that does not look at the age
expired_AnyAge(item, a) == item # MCP

\* Lines 270-273: what the sweep removes
expired(item, a) == item # MCP /\ a > MaxAge

\* A finally clause that starts the thread after a success only
starts_cleanup_OnSuccess(outcome) == outcome = "ok"

\* Line 386, in the finally clause: reached whatever the try statement did
starts_cleanup(outcome) == TRUE

\* A finally clause that does not change directory
finally_chdir_Stays(original_dir, current) == current

\* Line 374: os.chdir(original_dir)
finally_chdir(original_dir, current) == original_dir

InitSandbox ==
    /\ program = "sandbox"
    /\ ALLOWED_USERS = Split(<<>>)
    /\ ALLOWED_CHANNELS = Split(<<>>)
    /\ req = NoRequest
    /\ trace = <<>>
    /\ audit = <<>>
    /\ handled = 0
    /\ chat = <<>>
    /\ pending = <<>>
    /\ processed_messages = {}
    /\ ranIds = {}
    /\ failedIds = {}
    /\ sandbox \in {{}, {MCP}}
    /\ age = [d \in AllDirs |-> 0]
    /\ flight = NoFlight
    /\ cwd = HOME
    /\ threads = {}
    /\ access_token = None
    /\ token_expiry = NoExpiry
    /\ loop = "ensure_token"
    /\ sleeping = 0
    /\ TEAMS_WEBHOOK_SECRET = <<>>

otherVars ==
    <<program, ALLOWED_USERS, ALLOWED_CHANNELS, audit, handled, access_token,
      token_expiry, loop, sleeping, TEAMS_WEBHOOK_SECRET>>

\* Lines 255-305: the sweep of the old directories, each rmtree of which may
\* fail; os.makedirs of the request's own directory, which may raise and end
\* the request; os.getcwd().
SandboxBegin ==
    /\ program = "sandbox"
    /\ flight = NoFlight
    /\ \E swept \in SUBSET {item \in sandbox : expired(item, age[item])} :
       \E working_dir \in (DirNames \ (sandbox \cup {t.dir : t \in threads})) \cup {MCP} :
          \* MCP stands for no directory: os.makedirs has raised
          /\ sandbox' = (sandbox \ swept)
                          \cup (IF working_dir = MCP THEN {} ELSE {working_dir})
          /\ age' = [d \in AllDirs |->
                        IF d \in swept \/ (d = working_dir /\ d # MCP) THEN 0 ELSE age[d]]
          /\ flight' = IF working_dir = MCP THEN NoFlight
                       ELSE [working_dir |-> working_dir, original_dir |-> cwd,
                             pc |-> "chdir", entered |-> FALSE, outcome |-> "none"]
          /\ trace' = <<Event("sweep", "", swept, TRUE)>>
    /\ req' = NoRequest
    /\ UNCHANGED <<cwd, threads>>
    /\ UNCHANGED otherVars
    /\ UNCHANGED teamsVars

\* Line 309: os.chdir(working_dir), which raises where the directory is gone
\* or the system refuses
SandboxChdir ==
    /\ program = "sandbox"
    /\ flight # NoFlight
    /\ flight.pc = "chdir"
    /\ \E ok \in {b \in BOOLEAN : b => flight.working_dir \in sandbox} :
          /\ cwd' = IF ok THEN flight.working_dir ELSE cwd
          /\ flight' = IF ok THEN [flight EXCEPT !.pc = "execute", !.entered = TRUE]
                       ELSE [flight EXCEPT !.pc = "respond", !.outcome = "error"]
    /\ UNCHANGED <<req, trace, sandbox, age, threads>>
    /\ UNCHANGED otherVars
    /\ UNCHANGED teamsVars

\* Line 313: the run, which may write into the directory
SandboxExecute ==
    /\ program = "sandbox"
    /\ flight # NoFlight
    /\ flight.pc = "execute"
    /\ \E outcome \in {"ok", "timeout", "error"}, wrote \in BOOLEAN :
          /\ flight' = [flight EXCEPT !.pc = "respond", !.outcome = outcome]
          /\ age' = IF wrote /\ flight.working_dir \in sandbox
                    THEN [age EXCEPT ![flight.working_dir] = 0]
                    ELSE age
    /\ UNCHANGED <<req, trace, sandbox, cwd, threads>>
    /\ UNCHANGED otherVars
    /\ UNCHANGED teamsVars

\* Lines 315-371: the responses of the outcome, to the last one
SandboxRespond ==
    /\ program = "sandbox"
    /\ flight # NoFlight
    /\ flight.pc = "respond"
    /\ flight' = [flight EXCEPT !.pc = "finally"]
    /\ UNCHANGED <<req, trace, sandbox, age, cwd, threads>>
    /\ UNCHANGED otherVars
    /\ UNCHANGED teamsVars

\* Lines 372-386: the finally clause
SandboxFinally ==
    /\ program = "sandbox"
    /\ flight # NoFlight
    /\ flight.pc = "finally"
    /\ cwd' = finally_chdir(flight.original_dir, cwd)
    /\ threads' = IF starts_cleanup(flight.outcome)
                  THEN threads \cup {[dir |-> flight.working_dir, sleep |-> GracePeriod]}
                  ELSE threads
    /\ req' = flight
    /\ flight' = NoFlight
    /\ UNCHANGED <<trace, sandbox, age>>
    /\ UNCHANGED otherVars
    /\ UNCHANGED teamsVars

\* Lines 378-385: a cleanup thread has slept; shutil.rmtree may raise
CleanupWake ==
    /\ program = "sandbox"
    /\ \E t \in threads :
          /\ t.sleep = 0
          /\ \E removed \in {b \in BOOLEAN : b => t.dir \in sandbox} :
                /\ sandbox' = IF removed THEN sandbox \ {t.dir} ELSE sandbox
                /\ age' = IF removed THEN [age EXCEPT ![t.dir] = 0] ELSE age
                /\ trace' = <<Event("cleanup", "", {t.dir}, removed)>>
          /\ threads' = threads \ {t}
    /\ UNCHANGED <<req, flight, cwd>>
    /\ UNCHANGED otherVars
    /\ UNCHANGED teamsVars

\* Time passes: the directories grow older, the threads sleep on
Tick ==
    /\ program = "sandbox"
    /\ age' = [d \in AllDirs |->
                  IF d \in sandbox /\ age[d] <= MaxAge THEN age[d] + 1 ELSE age[d]]
    /\ threads' = {[t EXCEPT !.sleep = IF @ > 0 THEN @ - 1 ELSE 0] : t \in threads}
    /\ UNCHANGED <<req, trace, sandbox, flight, cwd>>
    /\ UNCHANGED otherVars
    /\ UNCHANGED teamsVars

NextSandbox ==
    \/ SandboxBegin
    \/ SandboxChdir
    \/ SandboxExecute
    \/ SandboxRespond
    \/ SandboxFinally
    \/ CleanupWake
    \/ Tick

SpecSandbox == InitSandbox /\ [][NextSandbox]_vars

\* The bot keeps running: time passes, a request under way goes on, a thread
\* that has slept runs, and requests keep coming whose sweep does not fail on
\* the same directory for ever.
LiveSandbox ==
    /\ SpecSandbox
    /\ WF_vars(Tick)
    /\ WF_vars(SandboxChdir)
    /\ WF_vars(SandboxExecute)
    /\ WF_vars(SandboxRespond)
    /\ WF_vars(SandboxFinally)
    /\ WF_vars(CleanupWake)
    /\ \A d \in DirNames : SF_vars(SandboxBegin /\ d \in sandbox /\ d \notin sandbox')

(***************************************************************************)
(* The Teams polling loop: TeamsClaudeBot.start and ensure_token.  Time is *)
(* kept relative: token_expiry is what is left until the recorded expiry    *)
(* (0: the expiry is not in the future), sleeping what is left of a sleep. *)
(***************************************************************************)

\* POLLING_INTERVAL is read from the environment (default 5); scaled down.
POLLING_INTERVAL == 1

\* timedelta(minutes=55), in polling intervals; scaled down.
TokenLife == 3

\* The access tokens the identity platform hands out
Tokens == {"t1", "t2"}

\* What token acquisition comes to: a result with an access token, a result
\* that describes an error, or an exception of the client library
AcquireResults == Tokens \cup {"error", "raise"}

\* An ensure_token that asks for a new token whatever it holds
ensure_token_AlwaysAcquires(token, expiry, result) ==
    IF result \in Tokens
    THEN [access_token |-> result, token_expiry |-> TokenLife,
          acquired |-> TRUE, raised |-> FALSE]
    ELSE [access_token |-> token, token_expiry |-> expiry,
          acquired |-> TRUE, raised |-> TRUE]

\* Lines 91-113.  acquired: the identity platform was asked for a token.
ensure_token(token, expiry, result) ==
    IF token # None /\ expiry > 0
    THEN [access_token |-> token, token_expiry |-> expiry,
          acquired |-> FALSE, raised |-> FALSE]
    ELSE IF result \in Tokens
    THEN [access_token |-> result, token_expiry |-> TokenLife,
          acquired |-> TRUE, raised |-> FALSE]
    ELSE [access_token |-> token, token_expiry |-> expiry,
          acquired |-> TRUE, raised |-> TRUE]

\* What a poll comes to: the chats were listed and processed, the listing was
\* refused (a status other than 200), or a call raised
PollOutcomes == {"ok", "status", "exception"}

\* A poll_messages that lets an exception of its calls through
poll_messages_Reraises(outcome) == IF outcome = "exception" THEN "raise" ELSE "return"

\* Lines 115-155: every call that can raise stands inside the try statement
\* of line 131, whose handler logs and does not raise again.
poll_messages(outcome) == "return"

\* Lines 82 and 89: the sleep after a cycle that returned and after one that
\* raised
sleep_after(raised) == IF raised THEN POLLING_INTERVAL * 2 ELSE POLLING_INTERVAL

InitLoop ==
    /\ program = "loop"
    /\ ALLOWED_USERS = Split(<<>>)
    /\ ALLOWED_CHANNELS = Split(<<>>)
    /\ InitCommon

loopFrame ==
    <<program, ALLOWED_USERS, ALLOWED_CHANNELS, req, audit, sandbox, handled,
      flight, cwd, threads, age, TEAMS_WEBHOOK_SECRET>>

\* Line 76, and lines 87-89 when it raises
StartEnsureToken ==
    /\ program = "loop"
    /\ loop = "ensure_token"
    /\ \E result \in AcquireResults :
       \E out \in {ensure_token(access_token, token_expiry, result)} :
          /\ access_token' = out.access_token
          /\ token_expiry' = out.token_expiry
          /\ IF out.raised
             THEN /\ loop' = "backoff"
                  /\ sleeping' = sleep_after(TRUE)
                  /\ trace' = <<Event("acquire", result, 0, FALSE),
                                Event("sleep", "", sleep_after(TRUE), TRUE)>>
             ELSE /\ loop' = "poll_messages"
                  /\ sleeping' = 0
                  /\ trace' = (IF out.acquired
                               THEN <<Event("acquire", result, 0, TRUE)>>
                               ELSE <<>>)
                              \o <<Event("ensure_token", "", out.token_expiry, TRUE)>>
    /\ UNCHANGED loopFrame
    /\ UNCHANGED teamsVars

\* Lines 79-82, and lines 87-89 when poll_messages raises
StartPollMessages ==
    /\ program = "loop"
    /\ loop = "poll_messages"
    /\ \E outcome \in PollOutcomes :
       \E raised \in {poll_messages(outcome) = "raise"} :
          /\ loop' = IF raised THEN "backoff" ELSE "sleep"
          /\ sleeping' = sleep_after(raised)
          /\ trace' = trace \o <<Event("poll", outcome, 0, outcome # "exception"),
                                 Event("sleep", "", sleep_after(raised), TRUE)>>
    /\ UNCHANGED <<access_token, token_expiry>>
    /\ UNCHANGED loopFrame
    /\ UNCHANGED teamsVars

\* time.sleep returns and the loop goes round: line 73
StartNextCycle ==
    /\ program = "loop"
    /\ loop \in {"sleep", "backoff"}
    /\ sleeping = 0
    /\ loop' = "ensure_token"
    /\ UNCHANGED <<trace, sleeping, access_token, token_expiry>>
    /\ UNCHANGED loopFrame
    /\ UNCHANGED teamsVars

\* Ctrl-C at any statement of the loop: lines 84-86, or out of the handler
\* of line 87 while it sleeps
StartKeyboardInterrupt ==
    /\ program = "loop"
    /\ loop # "stopped"
    /\ loop' = "stopped"
    /\ trace' = Append(trace, Event("KeyboardInterrupt", loop, 0, TRUE))
    /\ UNCHANGED <<sleeping, access_token, token_expiry>>
    /\ UNCHANGED loopFrame
    /\ UNCHANGED teamsVars

\* Time passes: a sleep gets shorter, the recorded expiry comes nearer
ClockTick ==
    /\ program = "loop"
    /\ loop # "stopped"
    /\ sleeping > 0 \/ (access_token # None /\ token_expiry > 0)
    /\ sleeping' = IF sleeping > 0 THEN sleeping - 1 ELSE 0
    /\ token_expiry' = IF access_token # None /\ token_expiry > 0
                       THEN token_expiry - 1 ELSE token_expiry
    /\ UNCHANGED <<trace, loop, access_token>>
    /\ UNCHANGED loopFrame
    /\ UNCHANGED teamsVars

NextLoop ==
    \/ StartEnsureToken
    \/ StartPollMessages
    \/ StartNextCycle
    \/ StartKeyboardInterrupt
    \/ ClockTick

SpecLoop == InitLoop /\ [][NextLoop]_vars

\* The process keeps running until it is interrupted: the clock goes on and
\* each statement of the loop is executed in its turn.  Nothing obliges the
\* operator to press Ctrl-C.
LiveLoop ==
    /\ SpecLoop
    /\ WF_vars(ClockTick) /\ WF_vars(StartNextCycle)
    /\ WF_vars(StartEnsureToken) /\ WF_vars(StartPollMessages)

----------------------------------------------------------------------------
(* Properties *)

\* Positions of the events with operation op
At(tr, op) == {i \in 1..Len(tr) : tr[i].op = op}

\* The sends made after position i
SendsAfter(tr, i) == {j \in (i + 1)..Len(tr) : tr[j].op = "send"}

\* A list "contains at least one identifier"
NamesSomeone(l) == \E i \in 1..Len(l) : l[i] # <<>>

\* C1: is_authorized(user, channel) is true when both allow-lists are empty;
\* when a list contains at least one identifier and the caller's identifier is
\* not in it the answer is false; and the answer is true only if every
\* non-empty list contains its identifier.
C1_IsAuthorizedContract ==
    (program = "auth" /\ trace # <<>>) =>
        LET result == trace[1].arg = "allow"
            user == req.user
            channel == req.channel
        IN  /\ (~NamesSomeone(ALLOWED_USERS) /\ ~NamesSomeone(ALLOWED_CHANNELS)) => result
            /\ (NamesSomeone(ALLOWED_USERS) /\ ~InList(user, ALLOWED_USERS)) => ~result
            /\ (NamesSomeone(ALLOWED_CHANNELS) /\ ~InList(channel, ALLOWED_CHANNELS))
                   => ~result
            /\ result => /\ NamesSomeone(ALLOWED_USERS) => InList(user, ALLOWED_USERS)
                         /\ NamesSomeone(ALLOWED_CHANNELS)
                                => InList(channel, ALLOWED_CHANNELS)

\* The request handled last came in by this Slack entry point
ViaMention == req.type = "events_api" /\ req.etype = "app_mention"
ViaDirectMessage ==
    req.type = "events_api" /\ req.etype = "message" /\ req.channel_type = "im"
ViaSlashCommand == req.type = "slash_commands"

Denied(tr) == \E i \in At(tr, "auth") : tr[i].arg = "deny"

\* C2: in the Slack bot, at each of the three entry points, a request that
\* fails the authorization filter gets exactly one message, the rejection, in
\* its channel; the executor is not invoked, the audit log and the sandbox
\* stay as they were.
C2_DeniedGetsOnlyRejection ==
    [][ (program = "slack" /\ req = NoRequest /\ req' # NoRequest /\ Denied(trace')) =>
           /\ ViaMention' \/ ViaDirectMessage' \/ ViaSlashCommand'
           /\ Cardinality(At(trace', "send")) = 1
           /\ \A i \in At(trace', "send") :
                 /\ trace'[i].obj = req'.channel
                 /\ trace'[i].arg =
                       IF ViaSlashCommand'
                       THEN "Sorry, you're not authorized to use this command."
                       ELSE "Sorry, you're not authorized to use this bot."
           /\ At(trace', "exec") = {}
           /\ audit' = audit
           /\ sandbox' = sandbox ]_vars

C2_Witness ==
    /\ program = "slack"
    /\ req # NoRequest
    /\ ViaDirectMessage
    /\ Denied(trace)
    /\ \E i \in At(trace, "send") : trace[i].arg = MsgNotAuthorizedBot

\* Every run of the executor in tr comes after a check of the allow-lists
\* that allowed the request
CheckedBeforeExec(tr) ==
    \A i \in At(tr, "exec") : \E j \in At(tr, "auth") : j < i /\ tr[j].arg = "allow"

\* C3 as stated: in the Slack bot and in the Teams polling bot the executor
\* runs only for a message that passed the authorization filter first.
C3_FilterBeforeExecutorInBoth ==
    program \in {"slack", "teams"} => CheckedBeforeExec(trace)

\* C3: in the Slack bot the executor runs only for a message whose sender and
\* channel were checked against the allow-lists, and allowed, beforehand.
C3_SlackFilterBeforeExecutor ==
    (program = "slack" /\ req # NoRequest) =>
        /\ CheckedBeforeExec(trace)
        /\ At(trace, "exec") # {} => is_authorized(req.user, req.channel)

C3_Witness ==
    /\ program = "slack"
    /\ At(trace, "exec") # {}
    /\ NamesSomeone(ALLOWED_USERS)
    /\ NamesSomeone(ALLOWED_CHANNELS)

\* C4: a prompt longer than MAX_PROMPT_LENGTH never reaches the executor, in
\* the Slack bot and in the Teams polling bot.
C4_OversizedNeverExecuted ==
    program \in {"slack", "teams"} =>
        \A i \in At(trace, "exec") : Len(trace[i].obj) <= MAX_PROMPT_LENGTH

\* C5: when the extracted prompt is empty, the executor is not invoked and the
\* user is sent a message asking for a prompt, in all three bots.
C5_EmptyPromptShortCircuits ==
    \A i \in At(trace, "prompt") :
        Strip(trace[i].obj) = <<>> =>
            /\ At(trace, "exec") = {}
            /\ SendsAfter(trace, i) # {}

TimedOut(tr) == \E i \in At(tr, "exec") : tr[i].arg = "timeout"

\* C6 as stated: after a timeout the one message sent is
\* "Claude took too long to respond." and nothing else, in all three bots.
C6_TimeoutMessageExact ==
    \A i \in At(trace, "exec") :
        trace[i].arg = "timeout" =>
            /\ Cardinality(SendsAfter(trace, i)) = 1
            /\ \A j \in SendsAfter(trace, i) :
                  trace[j].arg = ":stopwatch: Claude took too long to respond."

\* C6: after a timeout the one message sent is "Claude took too long to
\* respond." in the Teams polling bot and the webhook bot, and that sentence
\* followed by " Please try a simpler request." in the Slack bot.
C6_TimeoutMessagePerBot ==
    \A i \in At(trace, "exec") :
        trace[i].arg = "timeout" =>
            /\ Cardinality(SendsAfter(trace, i)) = 1
            /\ \A j \in SendsAfter(trace, i) :
                  trace[j].arg =
                     IF program = "slack"
                     THEN ":stopwatch: Claude took too long to respond. Please try a simpler request."
                     ELSE ":stopwatch: Claude took too long to respond."

C6_Witness ==
    /\ program = "slack"
    /\ TimedOut(trace)
    /\ \E j \in At(trace, "send") : trace[j].arg = MsgSlackTimeout

TimeoutTexts ==
    { ":stopwatch: Claude took too long to respond.",
      ":stopwatch: Claude took too long to respond. Please try a simpler request." }

\* C7: a timeout is reported as a timeout and ends the request: after it
\* exactly one message is sent, a took-too-long message and not an error
\* message, nothing is uploaded and no formatted response is sent; and a
\* took-too-long message is sent for no other outcome.
C7_TimeoutDistinctAndTerminal ==
    /\ \A i \in At(trace, "exec") :
          trace[i].arg = "timeout" =>
              /\ Cardinality(SendsAfter(trace, i)) = 1
              /\ \A j \in SendsAfter(trace, i) : trace[j].arg \in TimeoutTexts
              /\ \A j \in (i + 1)..Len(trace) : trace[j].op \notin {"upload", "reply"}
    /\ (\E j \in At(trace, "send") : trace[j].arg \in TimeoutTexts) => TimedOut(trace)

C7_Witness ==
    /\ program = "slack"
    /\ TimedOut(trace)
    /\ \E j \in At(trace, "delete") : j < Len(trace)
    /\ trace[Len(trace)].op = "cleanup_scheduled"

\* C11: in the Slack bot an exception raised at any step of request handling
\* after validation (audit logging, directory creation, execution, file
\* listing) is caught inside process_claude_request and reported to the user
\* as an error message: none leaves the handler.
C11_ExceptionsCaughtAndReported ==
    program = "slack" =>
        /\ At(trace, "escape") = {}
        /\ \A i \in At(trace, "raise") :
              \E j \in SendsAfter(trace, i) : trace[j].arg = MsgErrorPrefix \o MsgOsError

\* The lines of audit are the first lines of audit2
IsPrefix(audit1, audit2) ==
    /\ Len(audit1) <= Len(audit2)
    /\ \A i \in 1..Len(audit1) : audit2[i] = audit1[i]

\* The request was refused: by the allow-lists, or for its prompt
Rejected(tr) ==
    \/ Denied(tr)
    \/ \E i \in At(tr, "send") : tr[i].arg \in {MsgNeedPrompt, MsgTooLong}

\* C13: the Slack bot's audit log is append-only: a request keeps the lines
\* already there; one that reaches the executor appends exactly one entry
\* {timestamp, user, channel, prompt, allowed_tools}, its own, before the
\* executor runs; one that is rejected (authorization, empty or oversized
\* prompt) appends none.
C13_AuditAppendOnly ==
    [][ (program = "slack" /\ req = NoRequest /\ req' # NoRequest) =>
           /\ IsPrefix(audit, audit')
           /\ Len(audit') <= Len(audit) + 1
           /\ Rejected(trace') => audit' = audit
           /\ \A i \in At(trace', "exec") :
                 /\ Len(audit') = Len(audit) + 1
                 /\ DOMAIN audit'[Len(audit')] =
                       {"timestamp", "user", "channel", "prompt", "allowed_tools"}
                 /\ audit'[Len(audit')].user = req'.user
                 /\ audit'[Len(audit')].channel = req'.channel
                 /\ audit'[Len(audit')].prompt = trace'[i].obj
                 /\ audit'[Len(audit')].allowed_tools = ALLOWED_TOOLS
                 /\ \E j \in At(trace', "audit") : j < i ]_vars

C13_Witness ==
    /\ program = "slack"
    /\ Len(audit) = 2
    /\ At(trace, "exec") # {}
    /\ audit[1].timestamp < audit[2].timestamp

\* The exit code, stderr and stdout of a failed run, combined
Combined(run) ==
    "Exit code: " \o ToString(run.returncode)
        \o (IF run.stderr # "" THEN " | Stderr: " \o run.stderr ELSE "")
        \o (IF run.stdout # "" THEN " | Stdout: " \o run.stdout ELSE "")

\* After the failed run at position i nothing is delivered as a normal
\* response: no formatted reply, no upload, no result message
NoNormalResponse(tr, i) ==
    /\ \A j \in (i + 1)..Len(tr) : tr[j].op \notin {"reply", "upload"}
    /\ \A j \in SendsAfter(tr, i) : tr[j].arg # MsgResult

\* C14 as stated: after a non-zero exit the user is sent an error message
\* carrying the exit code, stderr and stdout, and never the normal response,
\* in the Slack bot and the Teams polling bot.
C14_DiagnosticCombinesAll ==
    program \in {"slack", "teams"} =>
        \A i \in At(trace, "exit") :
            /\ \E j \in SendsAfter(trace, i) :
                  trace[j].arg = ":x: Error: " \o Combined(trace[i].obj)
            /\ NoNormalResponse(trace, i)

\* C14: after a non-zero exit the user is sent exactly one message and never
\* the normal response: in the Slack bot the error message carries the exit
\* code and the non-empty ones of stderr and stdout, in the Teams polling bot
\* it carries stderr alone, or "Unknown error" when stderr is empty.
C14_DiagnosticPerBot ==
    program \in {"slack", "teams"} =>
        \A i \in At(trace, "exit") :
            /\ Cardinality(SendsAfter(trace, i)) = 1
            /\ \A j \in SendsAfter(trace, i) :
                  trace[j].arg =
                     IF program = "slack"
                     THEN ":x: Error: " \o Combined(trace[i].obj)
                     ELSE ":x: Error: Claude returned error: "
                             \o (IF trace[i].obj.stderr # "" THEN trace[i].obj.stderr
                                 ELSE "Unknown error")
            /\ NoNormalResponse(trace, i)

C14_Witness ==
    /\ program = "slack"
    /\ \E i \in At(trace, "exit") :
          /\ trace[i].obj = [returncode |-> 2, stderr |-> "boom", stdout |-> "partial"]
          /\ \E j \in SendsAfter(trace, i) :
                trace[j].arg = ":x: Error: Exit code: 2 | Stderr: boom | Stdout: partial"

\* s holds a tag: what re.sub('<[^>]+>', ...) would match
HasTag(s) ==
    \E i \in 1..Len(s), k \in 1..Len(s) :
        /\ i + 1 < k
        /\ s[i] = "<"
        /\ s[k] = ">"
        /\ \A j \in (i + 1)..(k - 1) : s[j] # ">"

\* C15: for every message body clean_message_content returns text with every
\* markup tag removed, and applying it to its own result changes nothing.
C15_TagsRemovedAndIdempotent ==
    (program = "extract" /\ req # NoRequest /\ req.bot = "teams") =>
        /\ \A i \in 1..Len(trace) : ~HasTag(trace[i].obj)
        /\ Len(trace) = 2 => trace[2].obj = trace[1].obj

\* C16: the body <at>NAME</at> list the files, NAME being the bot's name in
\* any letter-case, yields the prompt "list the files" in the Teams polling
\* bot and in the webhook bot.
C16_MentionRemovedAnyCase ==
    (program = "extract" /\ req # NoRequest /\ req.body \in ScenarioBodies /\ trace # <<>>) =>
        trace[1].obj = Tail(ListTheFiles)

\* The formatter has posted one message, of this rendering and with this text
Rendered(kind, text) ==
    trace = <<Event("reply", kind, text, TRUE)>>

JsonBlock(content) ==
    <<"'", "'", "'", "j", "s", "o", "n", "\n">> \o JsonPretty[content] \o <<"\n", "'", "'", "'">>

\* C17 as stated: output that is valid JSON goes down the JSON path for every
\* prompt that does not ask for YAML or CSV.
C17_JsonPathUnlessYamlOrCsv ==
    (program = "format" /\ trace # <<>> /\ req.fs = NoFiles
        /\ json_loads_ok(req.content)
        /\ ~wants_yaml(req.prompt) /\ ~wants_csv(req.prompt)) =>
        Rendered("json", JsonBlock(req.content))

\* C17: output that is a valid JSON object or array and holds no SVG element
\* is posted as a pretty-printed json block for every prompt that asks neither
\* for YAML or CSV nor for a file, a download or an attachment.
C17_JsonPathUnlessOtherwiseAsked ==
    (program = "format" /\ trace # <<>> /\ req.fs = NoFiles
        /\ json_loads_ok(req.content)
        /\ Head(req.content) \in {"{", "["}
        /\ ~is_svg(req.content)
        /\ ~wants_yaml(req.prompt) /\ ~wants_csv(req.prompt) /\ ~wants_file(req.prompt)) =>
        Rendered("json", JsonBlock(req.content))

C17_Witness ==
    /\ program = "format"
    /\ req # NoRequest
    /\ req.content = <<"{", "\"", "a", "\"", ":", " ", "1", "}">>
    /\ req.prompt = <<"a", "s", " ", "j", "s", "o", "n">>
    /\ is_yaml(req.content)
    /\ Rendered("json", JsonBlock(req.content))

\* The formats the prompt asks for
Wanted(prompt) ==
    {k \in {"json", "yaml", "csv"} :
        \/ k = "json" /\ wants_json(prompt)
        \/ k = "yaml" /\ wants_yaml(prompt)
        \/ k = "csv" /\ wants_csv(prompt)}

\* The formats content sniffing detects
Detected(content) ==
    {k \in {"json", "yaml", "csv"} :
        \/ k = "json" /\ is_json(content)
        \/ k = "yaml" /\ is_yaml(content)
        \/ k = "csv" /\ is_csv(content)}

\* The format of a rendering
FormatOf(kind) == IF kind \in {"csv_table", "csv_block"} THEN "csv" ELSE kind

RECURSIVE Barred(_)
Barred(line) ==
    IF line = <<>> THEN <<" ", "|">>
    ELSE IF Head(line) = "," THEN <<" ", "|", " ">> \o Barred(Tail(line))
    ELSE <<Head(line)>> \o Barred(Tail(line))

\* |---|---|...| with n columns
RECURSIVE Ruled(_)
Ruled(n) == IF n = 0 THEN <<"|">> ELSE <<"|", "-", "-", "-">> \o Ruled(n - 1)

\* The CSV handed to send_csv_formatted: the output, or the text of the file
\* the output names
GivenCsv == IF req.fs = NoFiles THEN req.content ELSE req.fs["out.csv"]

UploadsOf(tr, f) == {j \in At(tr, "upload") : tr[j].arg = f}

\* C20: after a successful execution every file found in the working
\* directory other than a .dot or .puml file is uploaded exactly once, and no
\* .dot or .puml file is uploaded, found there or only named in the text.
C20_FilesUploadedOnceNoSources ==
    program = "slack" =>
        /\ \A i \in At(trace, "listdir") :
              \A f \in trace[i].obj :
                  SplitExt(FileChars[f]) \notin SourceExts =>
                      Cardinality(UploadsOf(trace, f)) = 1
        /\ \A j \in At(trace, "upload") : SplitExt(FileChars[trace[j].arg]) \notin SourceExts

\* What the user gets to see of a result: a message, a file
ResponseOps == {"reply", "upload", "attach"}

\* The files of a listing that are uploaded: all but the diagram sources
CreatedIn(listing) == {f \in listing : SplitExt(FileChars[f]) \notin SourceExts}

\* The text is short, names one of the files and has a word of creation
MereNotice(text, files) ==
    /\ Len(text) < NoticeMaxLen
    /\ \E f \in files : Contains(LowerStr(FileChars[f]), LowerStr(text))
    /\ \E w \in CreationWords : Contains(w, LowerStr(text))

InFlight(d) ==
    /\ flight # NoFlight
    /\ flight.working_dir = d
    /\ flight.pc \in {"chdir", "execute", "respond"}

C28_WorkingDirectoryRestored ==
    (program = "sandbox" /\ req # NoRequest /\ flight = NoFlight) =>
        cwd = req.original_dir

C28_Witness ==
    /\ program = "sandbox"
    /\ req # NoRequest
    /\ flight = NoFlight
    /\ req.entered
    /\ req.outcome = "timeout"
    /\ cwd = HOME

\* C24: a bot never handles a message that it sent itself: the executor is
\* not invoked for a Slack event whose user is the bot's own id, nor for a
\* reply that the Teams polling bot has posted into the chat.
C24_OwnMessagesNotHandled ==
    /\ (program = "slack" /\ req # NoRequest /\ req.type = "events_api" /\ req.user = BOT)
          => At(trace, "exec") = {}
    /\ (program = "teams" /\ req # NoRequest /\ req.from = "bot")
          => At(trace, "exec") = {}

\* C25: in the Teams webhook bot, when a secret is configured, a request
\* whose Authorization header is not "HMAC " followed by the base64
\* HMAC-SHA256 of the body under the secret is answered 403 and the executor
\* is not invoked for it; when no secret is configured every request is
\* accepted.
C25_UnsignedRequestsForbidden ==
    (program = "webhook" /\ req # NoRequest) =>
        IF TEAMS_WEBHOOK_SECRET # <<>>
              /\ req.Authorization # HmacPrefix \o Base64Hmac(TEAMS_WEBHOOK_SECRET, req.text)
        THEN /\ At(trace, "exec") = {}
             /\ \E i \in At(trace, "forbidden") : trace[i].arg = "403"
        ELSE At(trace, "exec") # {}

\* C26: the Slack bot acknowledges a Socket Mode request exactly once, and
\* before anything of its handling, when the request's type is events_api or
\* slash_commands; a request of any other type is neither acknowledged nor
\* handled.
C26_AcknowledgedOnceBeforeHandling ==
    (program = "slack" /\ req # NoRequest) =>
        IF req.type \in {"events_api", "slash_commands"}
        THEN At(trace, "ack") = {1}
        ELSE trace = <<>>

\* An event was acknowledged and then went as far as the executor and a reply
C26_Witness ==
    /\ program = "slack" /\ req # NoRequest
    /\ req.type = "events_api"
    /\ At(trace, "ack") = {1}
    /\ At(trace, "exec") # {}
    /\ At(trace, "reply") # {}

\* C29: in the Slack bot, every request that posted the "_processing..._"
\* placeholder has that placeholder deleted on every outcome (success,
\* timeout, error), and the deletion happens before any final response (file
\* upload, formatted text, timeout or error message) is sent.
C29_PlaceholderDeletedFirst ==
    (program = "slack" /\ req # NoRequest) =>
        \A i \in At(trace, "send") :
            (trace[i].arg = MsgProcessing /\ trace[i].ok) =>
                \E j \in At(trace, "delete") :
                    /\ j > i
                    /\ trace[j].ok
                    /\ \A k \in (i + 1)..Len(trace) :
                          trace[k].op \in {"send", "upload", "reply", "attach"} => j < k

\* A call of the cycle recorded in tr before position i raised an exception
RaisedBefore(tr, i, op) == \E j \in 1..(i - 1) : tr[j].op = op /\ ~tr[j].ok

\* C27 as stated: in the Teams polling bot, after an exception raised in a
\* cycle, in token acquisition or in polling, the bot waits twice the polling
\* interval.
C27_ExceptionBacksOffTwice ==
    program = "loop" =>
        \A i \in At(trace, "sleep") :
            (RaisedBefore(trace, i, "acquire") \/ RaisedBefore(trace, i, "poll")) =>
                trace[i].obj = POLLING_INTERVAL * 2

\* C27: in the Teams polling bot an exception raised in one cycle does not
\* end the loop.  After a failed token acquisition the bot waits twice the
\* polling interval; an exception raised while polling is caught inside
\* poll_messages and the bot waits the polling interval once, as after a poll
\* that went well.  After the wait the next cycle begins with ensure_token,
\* and only a keyboard interrupt terminates the loop.
C27_LoopSurvivesExceptions ==
    /\ [](program = "loop" =>
            /\ \A i \in At(trace, "sleep") :
                  trace[i].obj = IF RaisedBefore(trace, i, "acquire")
                                 THEN POLLING_INTERVAL * 2
                                 ELSE POLLING_INTERVAL
            /\ loop = "stopped" => Has(trace, "KeyboardInterrupt"))
    /\ (program = "loop" /\ loop \in {"sleep", "backoff"})
          ~> (loop \in {"ensure_token", "stopped"})

\* A call raised while polling, the bot slept the polling interval once and
\* the next cycle has begun
C27_Witness ==
    /\ program = "loop"
    /\ loop = "ensure_token"
    /\ \E i \in At(trace, "sleep") :
          /\ RaisedBefore(trace, i, "poll")
          /\ trace[i].obj = POLLING_INTERVAL

\* This step of ensure_token asked the identity platform for a token
Acquires ==
    /\ program = "loop"
    /\ loop = "ensure_token"
    /\ loop' \in {"poll_messages", "backoff"}
    /\ Has(trace', "acquire")

\* C30: in the Teams polling bot, poll_messages runs only in a loop iteration
\* in which ensure_token returned without error, so every poll uses an access
\* token whose recorded expiry was in the future when checked; a new token is
\* acquired only when none is held or the held token's expiry has passed, and
\* a failed acquisition leaves the previously held token and expiry
\* unchanged.
C30_PollOnlyWithEnsuredToken ==
    /\ [](program = "loop" /\ loop = "poll_messages" =>
            /\ access_token # None
            /\ trace[Len(trace)].op = "ensure_token"
            /\ trace[Len(trace)].obj > 0)
    /\ [][Acquires => (access_token = None \/ token_expiry <= 0)]_vars
    /\ [][(Acquires /\ loop' = "backoff") => UNCHANGED <<access_token, token_expiry>>]_vars

\* A token was held, its expiry passed, and the acquisition of the next one
\* failed
C30_Witness ==
    /\ program = "loop"
    /\ loop = "backoff"
    /\ access_token # None
    /\ \E i \in At(trace, "acquire") : ~trace[i].ok

\* Calls of the platform API: posting, deleting, uploading
PlatformOps == {"send", "delete", "upload", "reply"}

\* C12: a failure of a platform send, upload or delete call is swallowed: in
\* the Slack bot and the Teams polling bot the handler goes on after it and
\* no exception of such a call leaves the request handler.
C12_PlatformFailuresSwallowed ==
    program \in {"slack", "teams"} =>
        \A i \in 1..Len(trace) :
            (trace[i].op \in PlatformOps /\ ~trace[i].ok) =>
                \A j \in At(trace, "escape") : j < i \/ trace[j].arg # "send_message"

\* A step in which the Teams bot handles the mention in message req'
HandlesMention == program = "teams" /\ pending # <<>> /\ pending' # pending

\* C8: in the Teams polling bot a message id that mentions the bot makes the
\* executor run at most once, however often the polls return it.
C8_ExecutedAtMostOnce ==
    [][ (HandlesMention /\ At(trace', "exec") # {}) => req'.id \notin ranIds ]_vars

\* C9: once the handling of a message has failed (timeout, non-zero exit, or a
\* failure while sending the reply) that message never makes the executor run
\* again.
C9_NoRetryAfterFailure ==
    [][ (HandlesMention /\ At(trace', "exec") # {}) => req'.id \notin failedIds ]_vars

\* C10: the processed-message set never holds more than the cap; an insertion
\* into a set already at the cap leaves it trimmed to the retained size, taken
\* from the set and the new id; any other insertion just adds the id.
C10_ProcessedSetBounded ==
    /\ [](Cardinality(processed_messages) <= ProcessedCap)
    /\ [][ processed_messages' # processed_messages =>
              LET grown == processed_messages \cup {req'.id}
              IN  IF Cardinality(grown) > ProcessedCap
                  THEN /\ Cardinality(processed_messages') = ProcessedKeep
                       /\ processed_messages' \subseteq grown
                  ELSE processed_messages' = grown ]_vars

C10_Witness ==
    /\ program = "teams"
    /\ trace # <<>>
    /\ trace[Len(trace)].op = "record"
    /\ trace[Len(trace)].arg = "trimmed"
    /\ Cardinality(processed_messages) = ProcessedKeep

====
